---- MODULE Spec2Model ----
(***************************************************************************)
(* A model of the SmarAct MCS2 motor driver                                *)
(* (smarActApp/src/smarActMCS2MotorDriver.cpp and its header).             *)
(*                                                                         *)
(* One controller (MCS2Controller) owns the link to the device and a set   *)
(* of axes (MCS2Axis).  Every operation of the driver runs with the        *)
(* controller locked, so one operation is one step of the model.  What an  *)
(* operation put on the wire is kept in the variable sent: one entry per   *)
(* exchange, in the order of the exchanges, with the transport status of   *)
(* the exchange and the state of the link bookkeeping when it returned.    *)
(*                                                                         *)
(* Numbers: positions, velocities and step sizes are C doubles in the      *)
(* source.  The model draws them from small sets of integers, for which    *)
(* the double arithmetic of the source (+, -, * 1000) is exact; the one    *)
(* division that is cast to an integer is modelled with its truncation     *)
(* toward zero, the divisions that stay doubles are kept as ratios.        *)
(***************************************************************************)
EXTENDS Integers, Sequences, FiniteSets, TLC

(***************************************************************************)
(* Bounds of the model.                                                    *)
(***************************************************************************)
\* number of axes of the controller (numAxes of the constructor)
NumAxes == 2
\* largest answer of the device to :SYST:ERR:COUN?
MaxErrQueue == 1
\* positions given to move lie in -MaxPos .. MaxPos
MaxPos == 1
\* moves that would take a target outside -MaxTarget .. MaxTarget are not taken
MaxTarget == 2

Axes == 0 .. (NumAxes - 1)

(***************************************************************************)
(* Constants of the header.                                                *)
(***************************************************************************)
PULSES_PER_STEP == 1000
MAX_FREQUENCY == 20000
\* 0xffffffff, as the int (epicsInt32) the driver stores and prints it
HOLD_FOREVER == -1
CH_STATE_ACTIVELY_MOVING == 1
CH_STATE_CLOSED_LOOP_ACTIVE == 2
CH_STATE_SENSOR_PRESENT == 32
CH_STATE_IS_CALIBRATED == 64
CH_STATE_IS_REFERENCED == 128
CH_STATE_END_STOP_REACHED == 256
CH_STATE_FOLLOWING_LIMIT_REACHED == 1024
CH_STATE_MOVEMENT_FAILED == 2048
CH_STATE_POSITIONER_OVERLOAD == 8192
CH_STATE_OVERTEMP == 16384
CH_STATE_REFERENCE_MARK == 32768
CH_STATE_POSITIONER_FAULT == 131072
CH_STATE_AMPLIFIER_ENABLED == 262144

\* the test of a bit that also sees the bits below it
Bit_LowBits(chanState, mask) == IF chanState % (2 * mask) # 0 THEN 1 ELSE 0

\* (chanState & mask) ? 1 : 0, for a mask of one bit
Bit(chanState, mask) == (chanState \div mask) % 2

\* the word with the bits of S set: a status word, or a mask
RECURSIVE Word(_)
Word(S) == IF S = {} THEN 0 ELSE Word(S \ {CHOOSE k \in S : \A j \in S : k >= j})
                                 + 2 ^ (CHOOSE k \in S : \A j \in S : k >= j)

\* a double divided by a number and kept as a double
Ratio(x, d) == [num |-> x, den |-> d]

(***************************************************************************)
(* asynStatus.  The transport answers every exchange with one of these.    *)
(***************************************************************************)
asynSuccess == "asynSuccess"
asynTimeout == "asynTimeout"
asynError == "asynError"
TransportErrors == {asynTimeout, asynError}
\* another status of the transport: the port is disconnected
asynDisconnected == "asynDisconnected"

\* the number of exchanges of the longest operation (home: four commands,
\* each followed by a drain of the error queue)
MaxExchanges == 4 * (2 + MaxErrQueue)

\* The transport outcome of the exchanges of one operation, by the index of
\* the exchange in the operation: the link is down, with status e, from
\* exchange k1 to exchange k2, and answers the others.
Outage(k1, k2, e) ==
  [i \in 1 .. MaxExchanges |-> IF k1 <= i /\ i <= k2 THEN e ELSE asynSuccess]
AllOk == [i \in 1 .. MaxExchanges |-> asynSuccess]
\* the outages of one exchange, and those that last to the end of the operation
Failures(len) ==
  {AllOk} \cup UNION {{Outage(k, k, e), Outage(k, len, e)} : k \in 1 .. len, e \in TransportErrors}

(***************************************************************************)
(* The state.                                                              *)
(***************************************************************************)
VARIABLES
  oldStatus_,         \* MCS2Controller: the last status handleStatusChange saw
  initialPollDone_,   \* MCS2Axis fields, one value per axis
  sensorPresent_,
  openLoop_,
  stepTargetPos_nm_,
  stepTargetSteps_,
  stepsizef_,
  stepsizer_,
  motorStatusCommsError_,  \* the parameter library: the comms-error flag, per axis
  params,             \* the parameter library: the other values published, per axis
  sent,               \* the exchanges of the last operation
  lastOp,             \* the last operation: its name, axis, arguments and result
  okSinceBroadcast,   \* history: handleStatusChange saw asynSuccess since its last broadcast
  lastPollRet,        \* history: what the last poll of each axis returned
  sumTarget,          \* history: last absolute position plus the relative deltas since
  sumSteps,           \* history: the sum of the step counts of the legacy open-loop moves
  conc                \* the threads of the controller, its lock and its two buffers

vars == <<oldStatus_, initialPollDone_, sensorPresent_, openLoop_, stepTargetPos_nm_,
          stepTargetSteps_, stepsizef_, stepsizer_, motorStatusCommsError_, params,
          sent, lastOp,
          okSinceBroadcast, lastPollRet, sumTarget, sumSteps, conc>>

axisVars == <<initialPollDone_, sensorPresent_, openLoop_, stepTargetPos_nm_,
              stepTargetSteps_, stepsizef_, stepsizer_>>

(***************************************************************************)
(* The controller session.  A session value m is threaded through the      *)
(* exchanges of one operation: the link bookkeeping (old), the comms-error *)
(* flag of every axis (comms), the exchanges so far (log), the local       *)
(* status (comStatus in poll) of the axis method that runs (status) and    *)
(* the local comStatus of clearErrors (errStatus), whose result every      *)
(* caller of clearErrors discards, and what the clearErrors of the older   *)
(* revision wrote to motorStatusProblem_ (problem; empty: nothing).        *)
(***************************************************************************)
Cmd(fmt, args) == [fmt |-> fmt, args |-> args]

Session(old, comms, okSince) ==
  [old |-> old, comms |-> comms, okSince |-> okSince, bcast |-> FALSE, log |-> <<>>,
   status |-> asynSuccess, errStatus |-> asynSuccess, problem |-> {}]

\* One exchange as the log keeps it: the command, the transport's status,
\* the primitive that sent it, the link bookkeeping and the comms-error
\* flags before it (old, okBefore, commsBefore), whether it broadcast the
\* comms-error flag to all axes, and the comms-error flags when it returned.
Entry(m, cmd, st, via, before) ==
  [cmd |-> cmd, status |-> st, via |-> via, old |-> before.old,
   okBefore |-> before.okSince, commsBefore |-> before.comms,
   bcast |-> m.bcast, comms |-> m.comms]

\* asynMotorController::writeController(): one exchange, no link bookkeeping
writeController(m, cmd, sch) ==
  LET st == sch[Len(m.log) + 1]
  IN [m EXCEPT !.status = st,
               !.log = Append(@, Entry([m EXCEPT !.bcast = FALSE], cmd, st, "writeController", m))]

\* asynMotorController::writeReadController(), as clearErrors calls it: one
\* exchange, no link bookkeeping, the status kept in clearErrors' comStatus
writeReadController(m, cmd, sch) ==
  LET st == sch[Len(m.log) + 1]
  IN [m EXCEPT !.errStatus = st,
               !.log = Append(@, Entry([m EXCEPT !.bcast = FALSE], cmd, st, "writeReadController", m))]

\* handleStatusChange without the loop over the axes
handleStatusChange_NoLoop(m, status) ==
  IF status # m.old
  THEN [m EXCEPT !.bcast = FALSE,
                 !.okSince = (status = asynSuccess),
                 !.old = status]
  ELSE [m EXCEPT !.bcast = FALSE]

\* handleStatusChange without the comparison to oldStatus_
handleStatusChange_EveryFailure(m, status) ==
  [m EXCEPT !.comms = IF status # asynSuccess THEN [a \in Axes |-> 1] ELSE @,
            !.bcast = (status # asynSuccess),
            !.okSince = IF status # m.old THEN (status = asynSuccess) ELSE @,
            !.old = status]

handleStatusChange(m, status) ==
  IF status # m.old
  THEN [m EXCEPT !.comms = IF status # asynSuccess THEN [a \in Axes |-> 1] ELSE @,
                 !.bcast = (status # asynSuccess),
                 !.okSince = (status = asynSuccess),
                 !.old = status]
  ELSE [m EXCEPT !.bcast = FALSE]

writeReadHandleDisconnect(m, cmd, sch) ==
  LET st == sch[Len(m.log) + 1]
      m1 == handleStatusChange(m, st)
  IN [m1 EXCEPT !.status = IF st # asynSuccess THEN asynError ELSE st,
                !.log = Append(@, Entry(m1, cmd, st, "writeReadHandleDisconnect", m))]

\* the loop without "if (comStatus) goto skip" after the entry read
RECURSIVE drainErrors_NoSkip(_, _, _, _)
drainErrors_NoSkip(m, i, n, sch) ==
  IF i >= n \/ (i = 0 /\ m.errStatus # asynSuccess) THEN m
  ELSE drainErrors_NoSkip(writeReadController(m, Cmd(":SYST:ERR?", <<>>), sch), i + 1, n, sch)

\* the loop of clearErrors: i entries are read, n are pending; a failed
\* exchange ends it ("if (comStatus) goto skip")
RECURSIVE drainErrors(_, _, _, _)
drainErrors(m, i, n, sch) ==
  IF i >= n \/ m.errStatus # asynSuccess THEN m
  ELSE drainErrors(writeReadController(m, Cmd(":SYST:ERR?", <<>>), sch), i + 1, n, sch)

\* the text clearErrors logs for an error code, spelled as the source
\* spells it; the text of the default case is kept as its format and its
\* argument
ErrorMsg(errorCode) ==
  CASE errorCode = 259 -> Cmd("No sensor present", <<>>)
    [] errorCode = 34 -> Cmd("Invalid channel index", <<>>)
    [] errorCode = 0 -> Cmd("No error", <<>>)
    [] errorCode = -101 -> Cmd("Invalid character", <<>>)
    [] errorCode = -103 -> Cmd("Invalid seperator", <<>>)
    [] errorCode = -104 -> Cmd("Data type error", <<>>)
    [] errorCode = -108 -> Cmd("Parameter not allowed", <<>>)
    [] errorCode = -109 -> Cmd("Missing parameter", <<>>)
    [] errorCode = -113 -> Cmd("Command not exist", <<>>)
    [] errorCode = -151 -> Cmd("Invalid string", <<>>)
    [] errorCode = -350 -> Cmd("Queue overflow", <<>>)
    [] errorCode = -363 -> Cmd("Buffer overrun", <<>>)
    [] OTHER -> Cmd("Unable to decode %d", <<errorCode>>)

\* the entries of the queue that were read: one for each entry read that
\* succeeded
EntriesRead(log) ==
  Cardinality({i \in 1 .. Len(log) : log[i].cmd.fmt = ":SYST:ERR?" /\ log[i].status = asynSuccess})

\* what clearErrors logs: the text of every entry it read; codes are the
\* entries of the device's queue, the first first
ErrorMessages(log, codes) == [i \in 1 .. EntriesRead(log) |-> ErrorMsg(codes[i])]

\* numErrorMsgs is the device's answer to the count query
clearErrors(m, numErrorMsgs, sch) ==
  [drainErrors(writeReadController(m, Cmd(":SYST:ERR:COUN?", <<>>), sch), 0, numErrorMsgs, sch)
     EXCEPT !.comms = [a \in Axes |-> 1],
            !.errStatus = IF @ # asynSuccess THEN asynError ELSE asynSuccess]

\* clearErrors of the older revision: at skip it sets motorStatusProblem_ of
\* the controller's own parameter list (that of axis 0) and no axis's
\* comms-error flag
clearErrorsOlderSkip(m) ==
  [m EXCEPT !.problem = {IF m.errStatus # asynSuccess THEN 1 ELSE 0},
            !.errStatus = IF @ # asynSuccess THEN asynError ELSE asynSuccess]

clearErrorsOlder(m, numErrorMsgs, sch) ==
  clearErrorsOlderSkip(drainErrors(writeReadController(m, Cmd(":SYST:ERR:COUN?", <<>>), sch), 0, numErrorMsgs, sch))

(***************************************************************************)
(* MCS2Controller::MCS2Controller.                                         *)
(***************************************************************************)
\* clearErrors while the controller has no axis: at skip getAxis gives no
\* axis ("if (!pAxis) continue") and no flag is set
clearErrorsNoAxis(m, numErrorMsgs, sch) ==
  [drainErrors(writeReadController(m, Cmd(":SYST:ERR:COUN?", <<>>), sch), 0, numErrorMsgs, sch)
     EXCEPT !.errStatus = IF @ # asynSuccess THEN asynError ELSE asynSuccess]

\* the loop test with the mask bit inverted
AxisUnused_Inverted(unusedMask, axis) == Bit(unusedMask, 2 ^ axis) = 0

\* axisMask = (unusedMask & (1 << axis)) >> axis
AxisUnused(unusedMask, axis) == Bit(unusedMask, 2 ^ axis) # 0

\* the axes the loop of the constructor creates
AxesCreated(numAxes, unusedMask) ==
  {axis \in 0 .. (numAxes - 1) : ~AxisUnused(unusedMask, axis)}

\* The constructor: connect is the status of pasynOctetSyncIO->connect,
\* which is logged; nerr is what the device answers to the count queries.
\* Nothing in it returns early.  The result is the controller constructed:
\* its exchanges, oldStatus_, its axes with the fields their constructor
\* sets, and whether startPoller was reached.
construct(numAxes, unusedMask, connect, nerr, sch) ==
  [m |-> clearErrorsNoAxis(
            writeReadController(
               [clearErrorsNoAxis(Session(asynSuccess, [a \in Axes |-> 0], TRUE), nerr, sch)
                  EXCEPT !.old = asynError],
               Cmd(":DEV:SNUM?", <<>>), sch),
            nerr, sch),
   connect |-> connect,
   axes |-> AxesCreated(numAxes, unusedMask),
   initialPollDone_ |-> [axis \in AxesCreated(numAxes, unusedMask) |-> 0],
   openLoop_ |-> [axis \in AxesCreated(numAxes, unusedMask) |-> 0],
   stepTargetSteps_ |-> [axis \in AxesCreated(numAxes, unusedMask) |-> 0],
   pollerStarted |-> TRUE]

(***************************************************************************)
(* MCS2Axis::poll.                                                         *)
(***************************************************************************)
\* what the device answers to the queries of one poll (and to the count
\* query of the drains of one operation)
Responses(stat, pos, targ, ptyp, mclf, nerr) ==
  [stat |-> stat, pos |-> pos, targ |-> targ, ptyp |-> ptyp, mclf |-> mclf, nerr |-> nerr]

\* the setup returning what its clearErrors returns
initialPoll_StatusOfDrain(m, axisNo, hold, nerr, sch) ==
  [clearErrors(writeController(m, Cmd(":CHAN%d:HOLD %d", <<axisNo, hold>>), sch), nerr, sch)
     EXCEPT !.status = clearErrors(writeController(m, Cmd(":CHAN%d:HOLD %d", <<axisNo, hold>>),
                                                   sch), nerr, sch).errStatus]

\* status is that of the :HOLD command; what clearErrors returns is discarded
initialPoll(m, axisNo, hold, nerr, sch) ==
  clearErrors(writeController(m, Cmd(":CHAN%d:HOLD %d", <<axisNo, hold>>), sch), nerr, sch)

\* the reads with the target position read in open loop too
PollReads_TargAlways(chanState, openLoop) ==
  <<":CHAN%d:STAT?">>
  \o (IF Bit(chanState, CH_STATE_SENSOR_PRESENT) = 1
      THEN <<":CHAN%d:POS?", ":CHAN%d:POS:TARG?">> ELSE <<>>)
  \o <<":CHAN%d:PTYP?">>
  \o (IF Bit(chanState, CH_STATE_ACTIVELY_MOVING) = 0 THEN <<":CHAN%d:MCLF?">> ELSE <<>>)

\* the reads with cal_ published through the axis's own setIntegerParam,
\* which sends the calibration command
PollReads_Calibrates(chanState, openLoop) ==
  <<":CHAN%d:STAT?">>
  \o (IF Bit(chanState, CH_STATE_SENSOR_PRESENT) = 1
      THEN <<":CHAN%d:POS?">> \o (IF openLoop = 0 THEN <<":CHAN%d:POS:TARG?">> ELSE <<>>)
      ELSE <<>>)
  \o <<":CHAN%d:PTYP?">>
  \o (IF Bit(chanState, CH_STATE_ACTIVELY_MOVING) = 0
      THEN <<":CAL%d", ":CHAN%d:MCLF?">> ELSE <<>>)

\* The reads of one poll after the one-time setup, in the order of the
\* source; each is sent only if the one before it succeeded.
PollReads(chanState, openLoop) ==
  <<":CHAN%d:STAT?">>
  \o (IF Bit(chanState, CH_STATE_SENSOR_PRESENT) = 1
      THEN <<":CHAN%d:POS?">> \o (IF openLoop = 0 THEN <<":CHAN%d:POS:TARG?">> ELSE <<>>)
      ELSE <<>>)
  \o <<":CHAN%d:PTYP?">>
  \o (IF Bit(chanState, CH_STATE_ACTIVELY_MOVING) = 0 THEN <<":CHAN%d:MCLF?">> ELSE <<>>)

\* the reads without "if (comStatus) goto skip" between them
RECURSIVE RunReads_NoSkip(_, _, _, _)
RunReads_NoSkip(m, axisNo, reads, sch) ==
  IF reads = <<>> THEN [m EXCEPT !.status = IF \E i \in 1 .. Len(m.log) : m.log[i].status # asynSuccess
                                            THEN asynError ELSE asynSuccess]
  ELSE RunReads_NoSkip(writeReadHandleDisconnect(m, Cmd(Head(reads), <<axisNo>>), sch),
                       axisNo, Tail(reads), sch)

\* The reads are sent in order; "if (comStatus) goto skip" after the setup
\* and after every read.
RECURSIVE RunReads(_, _, _, _)
RunReads(m, axisNo, reads, sch) ==
  IF reads = <<>> \/ m.status # asynSuccess THEN m
  ELSE RunReads(writeReadHandleDisconnect(m, Cmd(Head(reads), <<axisNo>>), sch),
                axisNo, Tail(reads), sch)

\* the reads of the log that succeeded
ReadOk(log, fmt) ==
  \E i \in 1 .. Len(log) : log[i].cmd.fmt = fmt /\ log[i].status = asynSuccess

\* the status text with not-homed and not-calibrated applied to every axis
StatusText_NoGuard(comStatus, chanState, sensorPresent, openLoop) ==
  IF comStatus # asynSuccess THEN "E: Communication"
  ELSE IF Bit(chanState, CH_STATE_IS_REFERENCED) = 0 THEN "E: Axis not homed"
  ELSE IF Bit(chanState, CH_STATE_IS_CALIBRATED) = 0 THEN "E: Not calibrated"
  ELSE IF Bit(chanState, CH_STATE_MOVEMENT_FAILED) = 1 THEN "E: movement failed"
  ELSE IF Bit(chanState, CH_STATE_FOLLOWING_LIMIT_REACHED) = 1 THEN "E: follow limit"
  ELSE IF Bit(chanState, CH_STATE_POSITIONER_FAULT) = 1 THEN "positioner fault"
  ELSE IF Bit(chanState, CH_STATE_POSITIONER_OVERLOAD) = 1 THEN "positioner overload"
  ELSE IF Bit(chanState, CH_STATE_OVERTEMP) = 1 THEN "overtemperature"
  ELSE ""

\* the status text of poll, by priority
StatusText(comStatus, chanState, sensorPresent, openLoop) ==
  IF comStatus # asynSuccess THEN "E: Communication"
  ELSE IF Bit(chanState, CH_STATE_IS_REFERENCED) = 0 /\ sensorPresent # 0 /\ openLoop = 0
       THEN "E: Axis not homed"
  ELSE IF Bit(chanState, CH_STATE_IS_CALIBRATED) = 0 /\ sensorPresent # 0 /\ openLoop = 0
       THEN "E: Not calibrated"
  ELSE IF Bit(chanState, CH_STATE_MOVEMENT_FAILED) = 1 THEN "E: movement failed"
  ELSE IF Bit(chanState, CH_STATE_FOLLOWING_LIMIT_REACHED) = 1 THEN "E: follow limit"
  ELSE IF Bit(chanState, CH_STATE_POSITIONER_FAULT) = 1 THEN "positioner fault"
  ELSE IF Bit(chanState, CH_STATE_POSITIONER_OVERLOAD) = 1 THEN "positioner overload"
  ELSE IF Bit(chanState, CH_STATE_OVERTEMP) = 1 THEN "overtemperature"
  ELSE ""

\* the locals poll decodes from the status word
Decode(chanState) ==
  [done |-> IF Bit(chanState, CH_STATE_ACTIVELY_MOVING) = 1 THEN 0 ELSE 1,
   closedLoop |-> Bit(chanState, CH_STATE_CLOSED_LOOP_ACTIVE),
   sensorPresent |-> Bit(chanState, CH_STATE_SENSOR_PRESENT),
   isCalibrated |-> Bit(chanState, CH_STATE_IS_CALIBRATED),
   isReferenced |-> Bit(chanState, CH_STATE_IS_REFERENCED),
   endStopReached |-> Bit(chanState, CH_STATE_END_STOP_REACHED),
   followLimitReached |-> Bit(chanState, CH_STATE_FOLLOWING_LIMIT_REACHED),
   movementFailed |-> Bit(chanState, CH_STATE_MOVEMENT_FAILED),
   refMark |-> Bit(chanState, CH_STATE_REFERENCE_MARK),
   driveOn |-> Bit(chanState, CH_STATE_ACTIVELY_MOVING)]

\* the flags with the drive power-on flag taken from the amplifier bit
StatusParams_Amplifier(p, chanState) ==
  [p EXCEPT !.pstatrb_ = chanState,
            !.motorStatusDone_ = 1 - Bit(chanState, CH_STATE_ACTIVELY_MOVING),
            !.motorClosedLoop_ = Bit(chanState, CH_STATE_CLOSED_LOOP_ACTIVE),
            !.motorStatusHasEncoder_ = Bit(chanState, CH_STATE_SENSOR_PRESENT),
            !.motorStatusHomed_ = Bit(chanState, CH_STATE_IS_REFERENCED),
            !.motorStatusHighLimit_ = Bit(chanState, CH_STATE_END_STOP_REACHED),
            !.motorStatusLowLimit_ = Bit(chanState, CH_STATE_END_STOP_REACHED),
            !.motorStatusFollowingError_ =
               IF Bit(chanState, CH_STATE_FOLLOWING_LIMIT_REACHED) = 1
                  \/ Bit(chanState, CH_STATE_MOVEMENT_FAILED) = 1 THEN 1 ELSE 0,
            !.motorStatusAtHome_ = Bit(chanState, CH_STATE_REFERENCE_MARK),
            !.motorStatusPowerOn_ = Bit(chanState, CH_STATE_AMPLIFIER_ENABLED)]

\* the parameters poll sets from the status word
StatusParams(p, chanState) ==
  [p EXCEPT !.pstatrb_ = chanState,
            !.motorStatusDone_ = 1 - Bit(chanState, CH_STATE_ACTIVELY_MOVING),
            !.motorClosedLoop_ = Bit(chanState, CH_STATE_CLOSED_LOOP_ACTIVE),
            !.motorStatusHasEncoder_ = Bit(chanState, CH_STATE_SENSOR_PRESENT),
            !.motorStatusHomed_ = Bit(chanState, CH_STATE_IS_REFERENCED),
            !.motorStatusHighLimit_ = Bit(chanState, CH_STATE_END_STOP_REACHED),
            !.motorStatusLowLimit_ = Bit(chanState, CH_STATE_END_STOP_REACHED),
            !.motorStatusFollowingError_ =
               IF Bit(chanState, CH_STATE_FOLLOWING_LIMIT_REACHED) = 1
                  \/ Bit(chanState, CH_STATE_MOVEMENT_FAILED) = 1 THEN 1 ELSE 0,
            !.motorStatusAtHome_ = Bit(chanState, CH_STATE_REFERENCE_MARK),
            !.motorStatusPowerOn_ = Bit(chanState, CH_STATE_ACTIVELY_MOVING)]

\* "*moving" with the test of done inverted
Moving_Done(chanState) == Bit(chanState, CH_STATE_ACTIVELY_MOVING) = 0

\* done = (chanState & CH_STATE_ACTIVELY_MOVING) ? 0 : 1 and
\* *moving = done ? false : true
Moving(chanState) == Bit(chanState, CH_STATE_ACTIVELY_MOVING) = 1

\* What the caller finds in its variable moving when poll returns.  poll
\* assigns *moving after the status read only: when the setup or the status
\* read failed the caller's variable keeps what it held, and the poller
\* passes a variable it has not initialised.
MovingOutcomes(log, chanState) ==
  IF ReadOk(log, ":CHAN%d:STAT?") THEN {Moving(chanState)} ELSE BOOLEAN

\* initialPollDone_ without "if (comStatus) initialPollDone_ = 0"
InitialPollDone_NoReset(ipd, comStatus) ==
  IF ipd = 0 /\ comStatus = asynSuccess THEN 1 ELSE ipd

\* initialPollDone_ without "initialPollDone_ = 1"
InitialPollDone_NeverSet(ipd, comStatus) ==
  IF comStatus # asynSuccess THEN 0 ELSE ipd

\* initialPollDone_ when poll returns: set after the setup succeeded,
\* cleared at skip when any exchange failed
InitialPollDone(ipd, comStatus) ==
  IF comStatus # asynSuccess THEN 0
  ELSE IF ipd = 0 THEN 1
  ELSE ipd

\* the parameters poll sets: those of the reads that succeeded, and the
\* status text
Published(p, log, r, errTxt) ==
  [(IF ReadOk(log, ":CHAN%d:STAT?") THEN StatusParams(p, r.stat) ELSE p) EXCEPT
     !.freadback_ = IF ReadOk(log, ":CHAN%d:POS?") THEN r.pos ELSE @,
     !.motorEncoderPosition_ =
        IF ReadOk(log, ":CHAN%d:POS?") THEN Ratio(r.pos, PULSES_PER_STEP) ELSE @,
     !.motorPosition_ =
        IF ReadOk(log, ":CHAN%d:POS:TARG?") THEN Ratio(r.targ, PULSES_PER_STEP) ELSE @,
     !.ptyprb_ = IF ReadOk(log, ":CHAN%d:PTYP?") THEN r.ptyp ELSE @,
     !.cal_ = IF ReadOk(log, ":CHAN%d:PTYP?") /\ Bit(r.stat, CH_STATE_ACTIVELY_MOVING) = 0
              THEN Bit(r.stat, CH_STATE_IS_CALIBRATED) ELSE @,
     !.ref_ = IF ReadOk(log, ":CHAN%d:PTYP?") /\ Bit(r.stat, CH_STATE_ACTIVELY_MOVING) = 0
              THEN Bit(r.stat, CH_STATE_IS_REFERENCED) ELSE @,
     !.mclf_ = IF ReadOk(log, ":CHAN%d:MCLF?") THEN r.mclf ELSE @,
     !.errTxt_ = errTxt]

\* sensorPresent_ after the poll
SensorPresent(log, chanState, sensor) ==
  IF ReadOk(log, ":CHAN%d:STAT?") THEN Bit(chanState, CH_STATE_SENSOR_PRESENT) ELSE sensor

\* poll from its label skip on, returning comStatus as it is
PollResult_RawStatus(m, axisNo, ipd, sensor, openLoop, p, r) ==
  [m |-> [m EXCEPT !.comms[axisNo] = IF m.status # asynSuccess THEN 1 ELSE 0],
   initialPollDone_ |-> InitialPollDone(ipd, m.status),
   sensorPresent_ |-> SensorPresent(m.log, r.stat, sensor),
   params |-> Published(p, m.log, r,
                        StatusText(m.status, r.stat, SensorPresent(m.log, r.stat, sensor),
                                   openLoop)),
   moving |-> MovingOutcomes(m.log, r.stat),
   decoded |-> IF ReadOk(m.log, ":CHAN%d:STAT?") THEN {Decode(r.stat)} ELSE {},
   ret |-> m.status]

\* poll from its label skip on: m is the session after the exchanges
PollResult(m, axisNo, ipd, sensor, openLoop, p, r) ==
  [m |-> [m EXCEPT !.comms[axisNo] = IF m.status # asynSuccess THEN 1 ELSE 0],
   initialPollDone_ |-> InitialPollDone(ipd, m.status),
   sensorPresent_ |-> SensorPresent(m.log, r.stat, sensor),
   params |-> Published(p, m.log, r,
                        StatusText(m.status, r.stat, SensorPresent(m.log, r.stat, sensor),
                                   openLoop)),
   moving |-> MovingOutcomes(m.log, r.stat),
   decoded |-> IF ReadOk(m.log, ":CHAN%d:STAT?") THEN {Decode(r.stat)} ELSE {},
   ret |-> IF m.status # asynSuccess THEN asynError ELSE asynSuccess]

\* The poll of axis axisNo, from session m and the axis fields ipd
\* (initialPollDone_), sensor (sensorPresent_) and openLoop; p is the axis's
\* parameter record, r the device's answers, sch the transport's.
poll(m, axisNo, ipd, sensor, openLoop, p, r, sch) ==
  PollResult(RunReads(IF ipd = 0 THEN initialPoll(m, axisNo, p.hold_, r.nerr, sch) ELSE m,
                      axisNo, PollReads(r.stat, openLoop), sch),
             axisNo, ipd, sensor, openLoop, p, r)

(***************************************************************************)
(* MCS2Axis::poll of the older revision of the driver.                     *)
(***************************************************************************)
initialPollOlder(m, axisNo, hold, nerr, sch) ==
  clearErrorsOlder(writeController(m, Cmd(":CHAN%d:HOLD %d", <<axisNo, hold>>), sch), nerr, sch)

\* the reads of the older poll: the target position whenever the sensor is
\* present, and the amplifier state
PollReadsOlder(chanState) ==
  <<":CHAN%d:STAT?">>
  \o (IF Bit(chanState, CH_STATE_SENSOR_PRESENT) = 1
      THEN <<":CHAN%d:POS?", ":CHAN%d:POS:TARG?">> ELSE <<>>)
  \o <<":CHAN%d:AMPL?", ":CHAN%d:PTYP?">>
  \o (IF Bit(chanState, CH_STATE_ACTIVELY_MOVING) = 0 THEN <<":CHAN%d:MCLF?">> ELSE <<>>)

\* the parameters the older poll sets from the status word
StatusParamsOlder(p, chanState) ==
  [p EXCEPT !.pstatrb_ = chanState,
            !.motorStatusDone_ = 1 - Bit(chanState, CH_STATE_ACTIVELY_MOVING),
            !.motorClosedLoop_ = Bit(chanState, CH_STATE_CLOSED_LOOP_ACTIVE),
            !.motorStatusHasEncoder_ = Bit(chanState, CH_STATE_SENSOR_PRESENT),
            !.motorStatusGainSupport_ = Bit(chanState, CH_STATE_SENSOR_PRESENT),
            !.motorStatusHomed_ = Bit(chanState, CH_STATE_IS_REFERENCED),
            !.motorStatusHighLimit_ = Bit(chanState, CH_STATE_END_STOP_REACHED),
            !.motorStatusLowLimit_ = Bit(chanState, CH_STATE_END_STOP_REACHED),
            !.motorStatusFollowingError_ =
               IF Bit(chanState, CH_STATE_FOLLOWING_LIMIT_REACHED) = 1
                  \/ Bit(chanState, CH_STATE_MOVEMENT_FAILED) = 1 THEN 1 ELSE 0,
            !.motorStatusAtHome_ = Bit(chanState, CH_STATE_REFERENCE_MARK)]

\* the status text of the older poll.  When the status read did not succeed
\* comStatus is set, so the locals left unassigned are never read.
StatusTextOlder(comStatus, chanState) ==
  IF comStatus # asynSuccess THEN "E: Communication"
  ELSE IF Bit(chanState, CH_STATE_IS_REFERENCED) = 0 THEN "E: Axis not homed"
  ELSE IF Bit(chanState, CH_STATE_IS_CALIBRATED) = 0 THEN "E: Not calibrated"
  ELSE IF Bit(chanState, CH_STATE_MOVEMENT_FAILED) = 1 THEN "E: movement failed"
  ELSE IF Bit(chanState, CH_STATE_FOLLOWING_LIMIT_REACHED) = 1 THEN "E: follow limit"
  ELSE IF Bit(chanState, CH_STATE_POSITIONER_FAULT) = 1 THEN "positioner fault"
  ELSE IF Bit(chanState, CH_STATE_POSITIONER_OVERLOAD) = 1 THEN "positioner overload"
  ELSE IF Bit(chanState, CH_STATE_OVERTEMP) = 1 THEN "overtemperature"
  ELSE ""

\* the parameters the older poll sets; ampl is the answer to :AMPL?
PublishedOlder(p, log, r, ampl, errTxt) ==
  [(IF ReadOk(log, ":CHAN%d:STAT?") THEN StatusParamsOlder(p, r.stat) ELSE p) EXCEPT
     !.motorEncoderPosition_ =
        IF ReadOk(log, ":CHAN%d:POS?") THEN Ratio(r.pos, PULSES_PER_STEP) ELSE @,
     !.motorPosition_ =
        IF ReadOk(log, ":CHAN%d:POS:TARG?") THEN Ratio(r.targ, PULSES_PER_STEP) ELSE @,
     !.motorStatusPowerOn_ =
        IF ReadOk(log, ":CHAN%d:AMPL?") THEN (IF ampl # 0 THEN 1 ELSE 0) ELSE @,
     !.ptyprb_ = IF ReadOk(log, ":CHAN%d:PTYP?") THEN r.ptyp ELSE @,
     !.cal_ = IF ReadOk(log, ":CHAN%d:PTYP?") /\ Bit(r.stat, CH_STATE_ACTIVELY_MOVING) = 0
              THEN Bit(r.stat, CH_STATE_IS_CALIBRATED) ELSE @,
     !.ref_ = IF ReadOk(log, ":CHAN%d:PTYP?") /\ Bit(r.stat, CH_STATE_ACTIVELY_MOVING) = 0
              THEN Bit(r.stat, CH_STATE_IS_REFERENCED) ELSE @,
     !.mclf_ = IF ReadOk(log, ":CHAN%d:MCLF?") THEN r.mclf ELSE @,
     !.errTxt_ = errTxt]

\* the older poll from its label skip on
PollResultOlder(m, axisNo, ipd, sensor, p, r, ampl) ==
  [m |-> [m EXCEPT !.comms[axisNo] = IF m.status # asynSuccess THEN 1 ELSE 0],
   initialPollDone_ |-> InitialPollDone(ipd, m.status),
   sensorPresent_ |-> SensorPresent(m.log, r.stat, sensor),
   params |-> PublishedOlder(p, m.log, r, ampl, StatusTextOlder(m.status, r.stat)),
   moving |-> MovingOutcomes(m.log, r.stat),
   ret |-> IF m.status # asynSuccess THEN asynError ELSE asynSuccess]

pollOlder(m, axisNo, ipd, sensor, p, r, ampl, sch) ==
  PollResultOlder(RunReads(IF ipd = 0 THEN initialPollOlder(m, axisNo, p.hold_, r.nerr, sch) ELSE m,
                           axisNo, PollReadsOlder(r.stat), sch),
                  axisNo, ipd, sensor, p, r, ampl)

(***************************************************************************)
(* MCS2Axis::move.                                                         *)
(***************************************************************************)
Abs(x) == IF x < 0 THEN -x ELSE x

\* the quotient rounded down
TruncDiv_Floor(x, d) == x \div d

\* (long long)(x / d) for doubles x and d, d # 0: the quotient truncated toward zero
TruncDiv(x, d) ==
  LET q == Abs(x) \div Abs(d) IN IF (x < 0) # (d < 0) THEN -q ELSE q

\* every command of cmds is sent, whatever the status of the one before;
\* the status kept is that of the last
RECURSIVE SendAll(_, _, _)
SendAll(m, cmds, sch) ==
  IF cmds = <<>> THEN m ELSE SendAll(writeController(m, Head(cmds), sch), Tail(cmds), sch)

\* the routing without "&& !openLoop_"
ClosedLoopRouted_SensorOnly(sensor, openLoop) == sensor # 0

\* sensorPresent_ && !openLoop_
ClosedLoopRouted(sensor, openLoop) == sensor # 0 /\ openLoop = 0

\* the four commands with the move command first
ClosedLoopCommands_MoveFirst(axisNo, position, relative, maxVelocity, acceleration) ==
  << Cmd(":MOVE%d %f", <<axisNo, position * PULSES_PER_STEP>> ),
     Cmd(":CHAN%d:MMOD %d", <<axisNo, IF relative > 0 THEN 1 ELSE 0>>),
     Cmd(":CHAN%d:ACC %f", <<axisNo, acceleration * PULSES_PER_STEP>>),
     Cmd(":CHAN%d:VEL %f", <<axisNo, maxVelocity * PULSES_PER_STEP>>) >>

ClosedLoopCommands(axisNo, position, relative, maxVelocity, acceleration) ==
  << Cmd(":CHAN%d:MMOD %d", <<axisNo, IF relative > 0 THEN 1 ELSE 0>>),
     Cmd(":CHAN%d:ACC %f", <<axisNo, acceleration * PULSES_PER_STEP>>),
     Cmd(":CHAN%d:VEL %f", <<axisNo, maxVelocity * PULSES_PER_STEP>>),
     Cmd(":MOVE%d %f", <<axisNo, position * PULSES_PER_STEP>> ) >>

\* the three commands with the frequency after the move command
OpenLoopCommands_FreqLast(axisNo, frequency, steps_to_go_i) ==
  << Cmd(":CHAN%d:MMOD 4", <<axisNo>>),
     Cmd(":MOVE%d %lld", <<axisNo, steps_to_go_i>>),
     Cmd(":CHAN%d:STEP:FREQ %u", <<axisNo, frequency>>) >>

OpenLoopCommands(axisNo, frequency, steps_to_go_i) ==
  << Cmd(":CHAN%d:MMOD 4", <<axisNo>>),
     Cmd(":CHAN%d:STEP:FREQ %u", <<axisNo, frequency>>),
     Cmd(":MOVE%d %lld", <<axisNo, steps_to_go_i>>) >>

\* the target overwritten by relative moves too
NewTargetPos_Overwrite(target, position, relative) == position

\* stepTargetPos_nm_ after the move
NewTargetPos(target, position, relative) ==
  IF relative # 0 THEN target + position ELSE position

\* steps_to_go_f before it is scaled: the distance to go in nm
DistanceToGo(target, position, relative) ==
  IF relative # 0 THEN position ELSE position - target

\* The new handling: the step count from the distance in pm and the step
\* size of the direction.
CalibratedSteps(target, position, relative, sizef, sizer) ==
  LET pm == DistanceToGo(target, position, relative) * PULSES_PER_STEP
  IN IF pm > 0 THEN TruncDiv(pm, sizef)
     ELSE IF pm < 0 THEN TruncDiv(pm, sizer)
     ELSE 0

\* (int)frequency of the new handling, before the clamp
CalibratedFrequency(target, position, relative, maxVelocity, sizef, sizer) ==
  LET pm == DistanceToGo(target, position, relative) * PULSES_PER_STEP
  IN IF pm > 0 THEN TruncDiv(maxVelocity * PULSES_PER_STEP, sizef)
     ELSE IF pm < 0 THEN TruncDiv(maxVelocity * PULSES_PER_STEP, sizer)
     ELSE maxVelocity

\* the old handling with every move taken as relative
LegacySteps_Relative(targetSteps, position, relative) == position

\* The old handling: the position is in steps.
LegacySteps(targetSteps, position, relative) ==
  IF relative # 0 THEN position ELSE position - targetSteps

\* the step target overwritten by relative moves too
NewTargetSteps_Overwrite(targetSteps, position, relative) == position

\* stepTargetSteps_ after a move of the old handling
NewTargetSteps(targetSteps, position, relative) ==
  IF relative # 0 THEN targetSteps + position ELSE position

ClampFrequency(frequency) ==
  IF frequency >= MAX_FREQUENCY THEN MAX_FREQUENCY ELSE frequency

\* (unsigned short)frequency for a double.  The conversion of a double whose
\* integer part is outside 0 .. 65535 is undefined: the builds give the
\* value modulo 2^16 or saturate.
UShortOutcomes(frequency) ==
  IF 0 <= frequency /\ frequency < 65536 THEN {frequency}
  ELSE {frequency % 65536, IF frequency < 0 THEN 0 ELSE 65535}

\* (unsigned short)frequency for an int: the value modulo 2^16
UShortOfInt(frequency) == frequency % 65536

\* "if (!steps_to_go_i) return status" never taken
SkipMove_Never(steps_to_go_i) == FALSE

\* if (!steps_to_go_i) return status: the open-loop move of no step ends
\* before its first command
SkipMove(steps_to_go_i) == steps_to_go_i = 0

\* (int)frequency before the clamp: maxVelocity, or what the new handling
\* makes of it
RequestedFrequency(ax, position, relative, maxVelocity) ==
  IF ax.stepsizef_ # 0 /\ ax.stepsizer_ # 0
  THEN CalibratedFrequency(ax.stepTargetPos_nm_, position, relative,
                           maxVelocity, ax.stepsizef_, ax.stepsizer_)
  ELSE maxVelocity

\* frequency after the clamp: what move stores in stepfreq_ and hands to
\* the (unsigned short) conversion
MoveFrequency(ax, position, relative, maxVelocity) ==
  ClampFrequency(RequestedFrequency(ax, position, relative, maxVelocity))

\* The move of axis axisNo from session m and the axis fields ax; p is the
\* axis's parameter record, wireFreq the outcome of (unsigned short)frequency.
\* steps is steps_to_go_i, which the closed-loop branch does not compute.
move(m, axisNo, ax, p, position, relative, maxVelocity, acceleration, wireFreq, sch) ==
  LET target1 == NewTargetPos(ax.stepTargetPos_nm_, position, relative)
      calibrated == ax.stepsizef_ # 0 /\ ax.stepsizer_ # 0
      steps_to_go_i ==
        IF calibrated
        THEN CalibratedSteps(ax.stepTargetPos_nm_, position, relative, ax.stepsizef_, ax.stepsizer_)
        ELSE LegacySteps(ax.stepTargetSteps_, position, relative)
      frequency == MoveFrequency(ax, position, relative, maxVelocity)
      targetSteps1 ==
        IF calibrated THEN ax.stepTargetSteps_
        ELSE NewTargetSteps(ax.stepTargetSteps_, position, relative)
  IN IF ClosedLoopRouted(ax.sensorPresent_, ax.openLoop_)
     THEN [m |-> SendAll(m, ClosedLoopCommands(axisNo, position, relative, maxVelocity,
                                               acceleration), sch),
           stepTargetPos_nm_ |-> target1,
           stepTargetSteps_ |-> ax.stepTargetSteps_,
           params |-> p,
           steps |-> 0]
     ELSE [m |-> IF SkipMove(steps_to_go_i) THEN m
                 ELSE SendAll(m, OpenLoopCommands(axisNo, wireFreq, steps_to_go_i), sch),
           stepTargetPos_nm_ |-> target1,
           stepTargetSteps_ |-> targetSteps1,
           params |-> [p EXCEPT !.motorPosition_ =
                                   IF calibrated THEN Ratio(target1, 1) ELSE Ratio(targetSteps1, 1),
                                !.stepfreq_ = frequency,
                                !.stepfreqDefined = TRUE],
           steps |-> steps_to_go_i]

(***************************************************************************)
(* MCS2Axis::move of the older revision of the driver.  It routes on       *)
(* sensorPresent_ alone, keeps one step target (stepTarget_, here the      *)
(* field stepTargetSteps_), sends its three open-loop commands whatever    *)
(* the distance, and converts maxVelocity to unsigned short before it      *)
(* clamps: frequency is the outcome of that conversion.                    *)
(***************************************************************************)
moveOlder(m, axisNo, sensor, stepTarget, p, position, relative, maxVelocity, acceleration, frequency, sch) ==
  IF sensor # 0
  THEN [m |-> SendAll(m, ClosedLoopCommands(axisNo, position, relative, maxVelocity,
                                            acceleration), sch),
        stepTargetSteps_ |-> stepTarget,
        params |-> p]
  ELSE [m |-> SendAll(m, << Cmd(":CHAN%d:MMOD 4", <<axisNo>>),
                            Cmd(":CHAN%d:STEP:FREQ %u", <<axisNo, ClampFrequency(frequency)>>),
                            Cmd(":MOVE%d %lld", <<axisNo, position - stepTarget>>) >>, sch),
        stepTargetSteps_ |-> position,
        params |-> [p EXCEPT !.motorPosition_ = Ratio(position, 1)]]

(***************************************************************************)
(* MCS2Axis::home, stop, setPosition, setClosedLoop and the parameter      *)
(* writes.                                                                 *)
(***************************************************************************)
START_DIRECTION == 1
AUTO_ZERO == 4

\* refOpt with the test of forwards inverted
RefOpt_Inverted(forwards) == (IF forwards # 0 THEN START_DIRECTION ELSE 0) + AUTO_ZERO

\* refOpt: both masks are single bits, so | is +
RefOpt(forwards) == (IF forwards = 0 THEN START_DIRECTION ELSE 0) + AUTO_ZERO

HomeCommands(axisNo, maxVelocity, acceleration, forwards) ==
  << Cmd(":CHAN%d:REF:OPT %d", <<axisNo, RefOpt(forwards)>>),
     Cmd(":CHAN%d:ACC %f", <<axisNo, acceleration * PULSES_PER_STEP>>),
     Cmd(":CHAN%d:VEL %f", <<axisNo, maxVelocity * PULSES_PER_STEP>>),
     Cmd(":REF%d", <<axisNo>>) >>

\* the sequence given up at the first command that failed
RECURSIVE SendAllAndClear_StopAtFailure(_, _, _, _)
SendAllAndClear_StopAtFailure(m, cmds, nerr, sch) ==
  IF cmds = <<>> \/ m.status # asynSuccess THEN m
  ELSE SendAllAndClear_StopAtFailure(clearErrors(writeController(m, Head(cmds), sch), nerr, sch),
                                     Tail(cmds), nerr, sch)

\* the drain run after a command that succeeded only
RECURSIVE SendAllAndClear_DrainOnSuccess(_, _, _, _)
SendAllAndClear_DrainOnSuccess(m, cmds, nerr, sch) ==
  IF cmds = <<>> THEN m
  ELSE SendAllAndClear_DrainOnSuccess(
         IF sch[Len(m.log) + 1] = asynSuccess
         THEN clearErrors(writeController(m, Head(cmds), sch), nerr, sch)
         ELSE writeController(m, Head(cmds), sch),
         Tail(cmds), nerr, sch)

\* every command is sent and followed by a drain of the error queue; the
\* status kept is that of the last command, not of its drain
RECURSIVE SendAllAndClear(_, _, _, _)
SendAllAndClear(m, cmds, nerr, sch) ==
  IF cmds = <<>> THEN m
  ELSE SendAllAndClear(clearErrors(writeController(m, Head(cmds), sch), nerr, sch),
                       Tail(cmds), nerr, sch)

home(m, axisNo, maxVelocity, acceleration, forwards, nerr, sch) ==
  SendAllAndClear(m, HomeCommands(axisNo, maxVelocity, acceleration, forwards), nerr, sch)

\* home of the older revision: the same commands, each followed by the
\* older clearErrors
RECURSIVE SendAllAndClearOlder(_, _, _, _)
SendAllAndClearOlder(m, cmds, nerr, sch) ==
  IF cmds = <<>> THEN m
  ELSE SendAllAndClearOlder(clearErrorsOlder(writeController(m, Head(cmds), sch), nerr, sch),
                            Tail(cmds), nerr, sch)

homeOlder(m, axisNo, maxVelocity, acceleration, forwards, nerr, sch) ==
  SendAllAndClearOlder(m, HomeCommands(axisNo, maxVelocity, acceleration, forwards), nerr, sch)

\* stop and setPosition read the same in both revisions
\* stop that addresses the first channel whatever the axis
stop_FirstChannel(m, axisNo, acceleration, sch) ==
  writeController(m, Cmd(":STOP%d", <<0>>), sch)

stop(m, axisNo, acceleration, sch) ==
  writeController(m, Cmd(":STOP%d", <<axisNo>>), sch)

\* the position sent without "* PULSES_PER_STEP"
setPosition_Unscaled(m, axisNo, position, sch) ==
  writeController(m, Cmd(":CHAN%d:POS %f", <<axisNo, position>>), sch)

setPosition(m, axisNo, position, sch) ==
  writeController(m, Cmd(":CHAN%d:POS %f", <<axisNo, position * PULSES_PER_STEP>>), sch)

setClosedLoop(m, axisNo, closedLoop, sch) ==
  writeController(m, Cmd("CHAN%d:AMPL %d", <<axisNo, IF closedLoop THEN 1 ELSE 0>>), sch)

\* The shape of a command, read off its format: the per-axis commands and
\* queries, the commands that carry the channel after their keyword, the
\* commands of the controller, and the one format without the leading
\* colon.
CommandForm(fmt) ==
  IF fmt \in {":CHAN%d:MMOD %d", ":CHAN%d:MMOD 4", ":CHAN%d:ACC %f", ":CHAN%d:VEL %f",
              ":CHAN%d:STEP:FREQ %u", ":CHAN%d:REF:OPT %d", ":CHAN%d:POS %f",
              ":CHAN%d:HOLD %d", ":CHAN%d:STAT?", ":CHAN%d:POS?", ":CHAN%d:POS:TARG?",
              ":CHAN%d:PTYP?", ":CHAN%d:MCLF?", ":CHAN%d:MCLF:CURR %d", ":CHAN%d:PTYP %d"}
  THEN ":CHAN<n><LEAF>"
  ELSE IF fmt \in {":MOVE%d %f", ":MOVE%d %lld", ":MOVE%d %d", ":REF%d", ":STOP%d", ":CAL%d"}
  THEN ":<LEAF><n>"
  ELSE IF fmt \in {":SYST:ERR:COUN?", ":SYST:ERR?"}
  THEN ":<LEAF>"
  ELSE IF fmt = "CHAN%d:AMPL %d"
  THEN "CHAN<n><LEAF>"
  ELSE "other"

\* The parameter write of axis axisNo: function names the parameter.  The
\* base class stores the value in the parameter library and succeeds.
setIntegerParam(m, axisNo, openLoop, p, function, value, wireFreq, sch) ==
  IF function = "mclf_"
  THEN [m |-> writeController(m, Cmd(":CHAN%d:MCLF:CURR %d", <<axisNo, value>>), sch),
        openLoop_ |-> openLoop, params |-> [p EXCEPT !.mclf_ = value], ret |-> asynSuccess]
  ELSE IF function = "ptyp_"
  THEN [m |-> writeController(m, Cmd(":CHAN%d:PTYP %d", <<axisNo, value>>), sch),
        openLoop_ |-> openLoop, params |-> [p EXCEPT !.ptyp_ = value], ret |-> asynSuccess]
  ELSE IF function = "cal_"
  THEN LET m1 == writeController(m, Cmd(":CAL%d", <<axisNo>>), sch)
       IN [m |-> m1, openLoop_ |-> openLoop, params |-> p, ret |-> m1.status]
  ELSE IF function = "hold_"
  THEN [m |-> writeController(m, Cmd(":CHAN%d:HOLD %d", <<axisNo, value>>), sch),
        openLoop_ |-> openLoop, params |-> [p EXCEPT !.hold_ = value], ret |-> asynSuccess]
  ELSE IF function = "openLoop_"
  THEN [m |-> m, openLoop_ |-> value, params |-> p, ret |-> asynSuccess]
  ELSE IF function = "stepcnt_"
  THEN LET m1 == SendAll(m, << Cmd(":CHAN%d:MMOD 4", <<axisNo>>),
                               Cmd(":CHAN%d:STEP:FREQ %u", <<axisNo, wireFreq>>),
                               Cmd(":MOVE%d %d", <<axisNo, value>>) >>, sch)
       IN [m |-> m1, openLoop_ |-> openLoop, params |-> p, ret |-> m1.status]
  ELSE [m |-> m, openLoop_ |-> openLoop,
        params |-> [p EXCEPT ![function] = value,
                             !.stepfreqDefined = @ \/ function = "stepfreq_"],
        ret |-> asynSuccess]

\* What an int that was never assigned may hold: a sample of the ints.
UninitialisedInts == {-1, 0, 70000}

\* getIntegerParam(stepfreq_, &frequency) with its status discarded: the
\* value of the parameter, or, while the parameter has no value (createParam
\* gives it none), frequency as it was declared: not initialised.
StepcntFrequency(p) ==
  IF p.stepfreqDefined THEN {p.stepfreq_} ELSE UninitialisedInts

\* The step sizes are kept in the axis; the copy the base class stores in
\* the parameter library equals the field and is not kept twice.
setDoubleParam(sizef, sizer, function, value) ==
  [stepsizef_ |-> IF function = "stepsizef_" THEN value ELSE sizef,
   stepsizer_ |-> IF function = "stepsizer_" THEN value ELSE sizer]

(***************************************************************************)
(* The state after construction.  The constructor of MCS2Controller runs   *)
(* its exchanges before any axis exists and leaves oldStatus_ at           *)
(* asynError; the constructor of MCS2Axis does not set sensorPresent_.     *)
(***************************************************************************)
InitParams ==
  [pstatrb_ |-> 0, motorStatusDone_ |-> 0, motorClosedLoop_ |-> 0,
   motorStatusHasEncoder_ |-> 0, motorStatusHomed_ |-> 0, motorStatusHighLimit_ |-> 0,
   motorStatusLowLimit_ |-> 0, motorStatusFollowingError_ |-> 0, motorStatusAtHome_ |-> 0,
   motorStatusPowerOn_ |-> 0, freadback_ |-> 0, motorEncoderPosition_ |-> Ratio(0, 1),
   motorPosition_ |-> Ratio(0, 1), ptyprb_ |-> 0, cal_ |-> 0, ref_ |-> 0, mclf_ |-> 0,
   ptyp_ |-> 0, errTxt_ |-> "", stepfreq_ |-> 0, stepfreqDefined |-> FALSE,
   hold_ |-> HOLD_FOREVER, motorStatusGainSupport_ |-> 1, motorStatusProblem_ |-> 0]

(***************************************************************************)
(* The threads.  The poller thread of the base class and the threads of    *)
(* the callers run the operations above; each takes the controller's lock  *)
(* (asynPortDriver::lock) before the operation and releases it after, as   *)
(* the base class does around poll and around every method it calls for a  *)
(* caller.  An operation is then a sequence of exchanges, each in three    *)
(* steps: it formats its command into outString_, the exchange puts        *)
(* outString_ on the stream and, for a read, leaves the answer in          *)
(* inString_, and the operation parses inString_.  Only the exchange holds *)
(* the stream.  The fields the operations set are those of the actions     *)
(* above, which take an operation in one step; here only the two buffers   *)
(* are followed.                                                           *)
(***************************************************************************)
Threads == {"poller", "caller"}

NoString == [none |-> TRUE]

\* what the device answers to a command
Reply(cmd) == [to |-> cmd]

\* the exchanges of an operation, from its log: the command of each and
\* whether the operation reads its answer
ExchangesOf(log) ==
  [i \in 1 .. Len(log) |-> [cmd |-> log[i].cmd, reads |-> log[i].via # "writeController"]]

InitConc ==
  [owner |-> "none",
   pc |-> [t \in Threads |-> "idle"],
   todo |-> [t \in Threads |-> <<>>],
   mine |-> [t \in Threads |-> NoString],
   outString_ |-> NoString,
   inString_ |-> NoString,
   lastSent |-> NoString,
   lastParsed |-> NoString]

\* a lock that is granted while another thread holds it
Free_Always(owner) == TRUE

\* epicsMutex: the lock is granted when no thread holds it
Free(owner) == owner = "none"

Init ==
  /\ oldStatus_ = asynError
  /\ initialPollDone_ = [a \in Axes |-> 0]
  /\ sensorPresent_ \in [Axes -> {0, 1}]
  /\ openLoop_ = [a \in Axes |-> 0]
  /\ stepTargetPos_nm_ = [a \in Axes |-> 0]
  /\ stepTargetSteps_ = [a \in Axes |-> 0]
  /\ stepsizef_ = [a \in Axes |-> 0]
  /\ stepsizer_ = [a \in Axes |-> 0]
  /\ motorStatusCommsError_ = [a \in Axes |-> 0]
  /\ params = [a \in Axes |-> InitParams]
  /\ sent = <<>>
  /\ lastOp = [op |-> "none"]
  /\ okSinceBroadcast = TRUE
  /\ lastPollRet = [a \in Axes |-> "none"]
  /\ sumTarget = [a \in Axes |-> 0]
  /\ sumSteps = [a \in Axes |-> 0]
  /\ conc = InitConc

\* The same, for the specifications that run one axis only: the fields of
\* the other axes are never read, and their uninitialised value is fixed.
InitOne == Init /\ \A a \in Axes \ {0} : sensorPresent_[a] = 0

(***************************************************************************)
(* The operations as steps.                                                *)
(***************************************************************************)
Start == Session(oldStatus_, motorStatusCommsError_, okSinceBroadcast)

AxisFields(a) ==
  [initialPollDone_ |-> initialPollDone_[a], sensorPresent_ |-> sensorPresent_[a],
   openLoop_ |-> openLoop_[a], stepTargetPos_nm_ |-> stepTargetPos_nm_[a],
   stepTargetSteps_ |-> stepTargetSteps_[a], stepsizef_ |-> stepsizef_[a],
   stepsizer_ |-> stepsizer_[a]]

\* no operation is in progress: the controller is unlocked
Idle == lastOp.op = "none"

\* what every operation leaves in the controller and in the log
\* the move takes the legacy open-loop path: it is not routed to closed
\* loop and the step sizes are not both set
LegacyPath(ax) ==
  ~ClosedLoopRouted(ax.sensorPresent_, ax.openLoop_) /\ ~(ax.stepsizef_ # 0 /\ ax.stepsizer_ # 0)

\* the step count of a move by the rule of the legacy path: the value given
\* when the move is relative, the value less the step target when it is not
StepCount(targetSteps, position, relative) ==
  IF relative # 0 THEN position ELSE position - targetSteps

Commit(m, op) ==
  /\ UNCHANGED conc
  /\ oldStatus_' = m.old
  /\ motorStatusCommsError_' = m.comms
  /\ okSinceBroadcast' = m.okSince
  /\ sent' = m.log
  /\ lastOp' = op

\* MCS2Axis::poll as a step; cycle is what an observer of the cycle keeps
\* of the state before it and of the device's answers (history only)
PollStep(a, r, sch, cycle) ==
  /\ Idle
  /\ \E res \in {poll(Start, a, initialPollDone_[a], sensorPresent_[a], openLoop_[a],
                       params[a], r, sch)} :
       /\ initialPollDone_' = [initialPollDone_ EXCEPT ![a] = res.initialPollDone_]
       /\ sensorPresent_' = [sensorPresent_ EXCEPT ![a] = res.sensorPresent_]
       /\ params' = [params EXCEPT ![a] = res.params]
       /\ lastPollRet' = [lastPollRet EXCEPT ![a] = res.ret]
       /\ \E moving \in res.moving :
            Commit(res.m, [op |-> "poll", axis |-> a, ret |-> res.ret, moving |-> moving,
                           stat |-> r.stat, decoded |-> res.decoded,
                           before |-> AxisFields(a), prevRet |-> lastPollRet[a],
                           cycle |-> cycle])
  /\ UNCHANGED <<openLoop_, stepTargetPos_nm_, stepTargetSteps_, stepsizef_, stepsizer_,
                 sumTarget, sumSteps>>

Poll(a, r, sch) == PollStep(a, r, sch, {})

\* the same poll, observed: the parameters of the axis before the cycle and
\* the answers of the device are kept beside its result
PollCycle(a, r, sch) == PollStep(a, r, sch, {[was |-> params[a], answers |-> r]})

Move(a, position, relative, maxVelocity, acceleration, sch) ==
  /\ Idle
  /\ Abs(NewTargetPos(stepTargetPos_nm_[a], position, relative)) <= MaxTarget
  /\ Abs(NewTargetSteps(stepTargetSteps_[a], position, relative)) <= MaxTarget
  /\ \E wireFreq \in UShortOutcomes(MoveFrequency(AxisFields(a), position, relative, maxVelocity)) :
       \E res \in {move(Start, a, AxisFields(a), params[a], position, relative, maxVelocity,
                        acceleration, wireFreq, sch)} :
          /\ stepTargetPos_nm_' = [stepTargetPos_nm_ EXCEPT ![a] = res.stepTargetPos_nm_]
          /\ stepTargetSteps_' = [stepTargetSteps_ EXCEPT ![a] = res.stepTargetSteps_]
          /\ params' = [params EXCEPT ![a] = res.params]
          /\ sumTarget' = [sumTarget EXCEPT ![a] = IF relative # 0 THEN @ + position ELSE position]
          /\ sumSteps' = [sumSteps EXCEPT ![a] =
                            IF LegacyPath(AxisFields(a))
                            THEN @ + StepCount(stepTargetSteps_[a], position, relative)
                            ELSE @]
          /\ Commit(res.m, [op |-> "move", axis |-> a, ret |-> res.m.status,
                            position |-> position, relative |-> relative,
                            maxVelocity |-> maxVelocity, acceleration |-> acceleration,
                            before |-> AxisFields(a), steps |-> res.steps])
  /\ UNCHANGED <<initialPollDone_, sensorPresent_, openLoop_, stepsizef_, stepsizer_, lastPollRet>>

\* poll of the older revision; what its clearErrors wrote to
\* motorStatusProblem_ is kept in the parameter list of axis 0
PollOlder(a, r, ampl, sch) ==
  /\ Idle
  /\ \E res \in {pollOlder(Start, a, initialPollDone_[a], sensorPresent_[a], params[a], r,
                            ampl, sch)} :
       /\ initialPollDone_' = [initialPollDone_ EXCEPT ![a] = res.initialPollDone_]
       /\ sensorPresent_' = [sensorPresent_ EXCEPT ![a] = res.sensorPresent_]
       /\ params' = [[params EXCEPT ![a] = res.params] EXCEPT
                       ![0].motorStatusProblem_ =
                          IF res.m.problem = {} THEN @ ELSE CHOOSE v \in res.m.problem : TRUE]
       /\ lastPollRet' = [lastPollRet EXCEPT ![a] = res.ret]
       /\ \E moving \in res.moving :
            Commit(res.m, [op |-> "pollOlder", axis |-> a, ret |-> res.ret, moving |-> moving,
                           stat |-> r.stat, ampl |-> ampl, before |-> AxisFields(a)])
  /\ UNCHANGED <<openLoop_, stepTargetPos_nm_, stepTargetSteps_, stepsizef_, stepsizer_,
                 sumTarget, sumSteps>>

\* move of the older revision
MoveOlder(a, position, relative, maxVelocity, acceleration, sch) ==
  /\ Idle
  /\ Abs(sumSteps[a] + StepCount(stepTargetSteps_[a], position, relative)) <= MaxTarget
  /\ \E frequency \in UShortOutcomes(maxVelocity) :
       \E res \in {moveOlder(Start, a, sensorPresent_[a], stepTargetSteps_[a], params[a],
                             position, relative, maxVelocity, acceleration, frequency, sch)} :
          /\ stepTargetSteps_' = [stepTargetSteps_ EXCEPT ![a] = res.stepTargetSteps_]
          /\ params' = [params EXCEPT ![a] = res.params]
          /\ sumSteps' = [sumSteps EXCEPT ![a] =
                            IF sensorPresent_[a] = 0
                            THEN @ + StepCount(stepTargetSteps_[a], position, relative)
                            ELSE @]
          /\ Commit(res.m, [op |-> "moveOlder", axis |-> a, ret |-> res.m.status,
                            position |-> position, relative |-> relative,
                            maxVelocity |-> maxVelocity, acceleration |-> acceleration,
                            before |-> AxisFields(a)])
  /\ UNCHANGED <<initialPollDone_, sensorPresent_, openLoop_, stepTargetPos_nm_, stepsizef_,
                 stepsizer_, lastPollRet, sumTarget>>

\* The construction of a controller of numAxes axes, from the command
\* MCS2CreateController; unused are the bits set in its unused mask.  The
\* controller it makes is kept in lastOp, its exchanges in sent; the
\* controller of the other actions is the one made with NumAxes axes and no
\* unused axis, which Init gives.
Construct(numAxes, unused, connect, nerr, sch) ==
  /\ Idle
  /\ \E res \in {construct(numAxes, Word(unused), connect, nerr, sch)} :
       /\ sent' = res.m.log
       /\ lastOp' = [op |-> "construct", numAxes |-> numAxes, unused |-> unused,
                     connect |-> connect, axes |-> res.axes,
                     initialPollDone_ |-> res.initialPollDone_,
                     oldStatus_ |-> res.m.old, pollerStarted |-> res.pollerStarted]
  /\ UNCHANGED <<oldStatus_, axisVars, motorStatusCommsError_, params, okSinceBroadcast,
                 lastPollRet, sumTarget, sumSteps, conc>>

\* a call of the controller's clearErrors; codes is the device's error
\* queue, its length the answer to the count query
ClearErrors(codes, sch) ==
  /\ Idle
  /\ \E m1 \in {clearErrors(Start, Len(codes), sch)} :
       Commit(m1, [op |-> "clearErrors", ret |-> m1.errStatus, codes |-> codes,
                   printed |-> ErrorMessages(m1.log, codes),
                   commsBefore |-> motorStatusCommsError_])
  /\ UNCHANGED <<axisVars, params, lastPollRet, sumTarget, sumSteps>>

Home(a, maxVelocity, acceleration, forwards, nerr, sch) ==
  /\ Idle
  /\ \E m1 \in {home(Start, a, maxVelocity, acceleration, forwards, nerr, sch)} :
       Commit(m1, [op |-> "home", axis |-> a, ret |-> m1.status, forwards |-> forwards,
                   maxVelocity |-> maxVelocity, acceleration |-> acceleration,
                   nerr |-> nerr])
  /\ UNCHANGED <<axisVars, params, lastPollRet, sumTarget, sumSteps>>

Stop(a, acceleration, sch) ==
  /\ Idle
  /\ \E m1 \in {stop(Start, a, acceleration, sch)} :
       Commit(m1, [op |-> "stop", axis |-> a, ret |-> m1.status,
                   acceleration |-> acceleration])
  /\ UNCHANGED <<axisVars, params, lastPollRet, sumTarget, sumSteps>>

SetPosition(a, position, sch) ==
  /\ Idle
  /\ \E m1 \in {setPosition(Start, a, position, sch)} :
       Commit(m1, [op |-> "setPosition", axis |-> a, ret |-> m1.status, position |-> position])
  /\ UNCHANGED <<axisVars, params, lastPollRet, sumTarget, sumSteps>>

SetClosedLoop(a, closedLoop, sch) ==
  /\ Idle
  /\ \E m1 \in {setClosedLoop(Start, a, closedLoop, sch)} :
       Commit(m1, [op |-> "setClosedLoop", axis |-> a, ret |-> m1.status,
                   closedLoop |-> closedLoop])
  /\ UNCHANGED <<axisVars, params, lastPollRet, sumTarget, sumSteps>>

SetIntegerParam(a, function, value, sch) ==
  /\ Idle
  /\ \E frequency \in StepcntFrequency(params[a]) :
       \E res \in {setIntegerParam(Start, a, openLoop_[a], params[a], function, value,
                                   UShortOfInt(ClampFrequency(frequency)), sch)} :
          /\ openLoop_' = [openLoop_ EXCEPT ![a] = res.openLoop_]
          /\ params' = [params EXCEPT ![a] = res.params]
          /\ Commit(res.m, [op |-> "setIntegerParam", axis |-> a, ret |-> res.ret,
                            function |-> function, value |-> value])
  /\ UNCHANGED <<initialPollDone_, sensorPresent_, stepTargetPos_nm_, stepTargetSteps_,
                 stepsizef_, stepsizer_, lastPollRet, sumTarget, sumSteps>>

SetDoubleParam(a, function, value) ==
  /\ Idle
  /\ \E res \in {setDoubleParam(stepsizef_[a], stepsizer_[a], function, value)} :
       /\ stepsizef_' = [stepsizef_ EXCEPT ![a] = res.stepsizef_]
       /\ stepsizer_' = [stepsizer_ EXCEPT ![a] = res.stepsizer_]
       /\ Commit(Start, [op |-> "setDoubleParam", axis |-> a, ret |-> asynSuccess,
                         function |-> function, value |-> value])
  /\ UNCHANGED <<initialPollDone_, sensorPresent_, openLoop_, stepTargetPos_nm_,
                 stepTargetSteps_, params, lastPollRet, sumTarget, sumSteps>>

(***************************************************************************)
(* The two revisions side by side.  Each action takes one call in the      *)
(* newer revision, as the action of the same name does, and keeps in       *)
(* lastOp what either revision sends, publishes and returns for that call  *)
(* from the state the call found, with the same answers of the device and  *)
(* the same outcome for the k-th exchange.                                 *)
(***************************************************************************)
\* what a revision did with a call: the commands it sent, the parameters
\* and the comms-error flags it left, and what it returned
Outcome(m, p, ret) ==
  [cmds |-> [i \in 1 .. Len(m.log) |-> m.log[i].cmd],
   allOk |-> \A i \in 1 .. Len(m.log) : m.log[i].status = asynSuccess,
   params |-> p, comms |-> m.comms, ret |-> ret]

PollBoth(a, r, ampl, sch) ==
  /\ Idle
  /\ \E res \in {poll(Start, a, initialPollDone_[a], sensorPresent_[a], openLoop_[a],
                       params[a], r, sch)} :
     \E old \in {pollOlder(Start, a, initialPollDone_[a], sensorPresent_[a], params[a], r,
                            ampl, sch)} :
       /\ initialPollDone_' = [initialPollDone_ EXCEPT ![a] = res.initialPollDone_]
       /\ sensorPresent_' = [sensorPresent_ EXCEPT ![a] = res.sensorPresent_]
       /\ params' = [params EXCEPT ![a] = res.params]
       /\ lastPollRet' = [lastPollRet EXCEPT ![a] = res.ret]
       /\ Commit(res.m, [op |-> "pollBoth", axis |-> a, stat |-> r.stat,
                         before |-> AxisFields(a),
                         newer |-> Outcome(res.m, res.params, res.ret),
                         older |-> Outcome(old.m, old.params, old.ret)])
  /\ UNCHANGED <<openLoop_, stepTargetPos_nm_, stepTargetSteps_, stepsizef_, stepsizer_,
                 sumTarget, sumSteps>>

MoveBoth(a, position, relative, maxVelocity, acceleration, sch) ==
  /\ Idle
  /\ Abs(NewTargetPos(stepTargetPos_nm_[a], position, relative)) <= MaxTarget
  /\ Abs(NewTargetSteps(stepTargetSteps_[a], position, relative)) <= MaxTarget
  /\ \E wireFreq \in UShortOutcomes(MoveFrequency(AxisFields(a), position, relative, maxVelocity)),
        frequency \in UShortOutcomes(maxVelocity) :
     \E res \in {move(Start, a, AxisFields(a), params[a], position, relative, maxVelocity,
                      acceleration, wireFreq, sch)} :
     \E old \in {moveOlder(Start, a, sensorPresent_[a], stepTargetSteps_[a], params[a],
                            position, relative, maxVelocity, acceleration, frequency, sch)} :
       /\ stepTargetPos_nm_' = [stepTargetPos_nm_ EXCEPT ![a] = res.stepTargetPos_nm_]
       /\ stepTargetSteps_' = [stepTargetSteps_ EXCEPT ![a] = res.stepTargetSteps_]
       /\ params' = [params EXCEPT ![a] = res.params]
       /\ sumTarget' = [sumTarget EXCEPT ![a] = IF relative # 0 THEN @ + position ELSE position]
       /\ sumSteps' = [sumSteps EXCEPT ![a] =
                         IF LegacyPath(AxisFields(a))
                         THEN @ + StepCount(stepTargetSteps_[a], position, relative)
                         ELSE @]
       /\ Commit(res.m, [op |-> "moveBoth", axis |-> a, position |-> position,
                         relative |-> relative, maxVelocity |-> maxVelocity,
                         before |-> AxisFields(a),
                         newer |-> Outcome(res.m, res.params, res.m.status),
                         older |-> Outcome(old.m, old.params, old.m.status)])
  /\ UNCHANGED <<initialPollDone_, sensorPresent_, openLoop_, stepsizef_, stepsizer_, lastPollRet>>

HomeBoth(a, maxVelocity, acceleration, forwards, nerr, sch) ==
  /\ Idle
  /\ \E m1 \in {home(Start, a, maxVelocity, acceleration, forwards, nerr, sch)} :
     \E old \in {homeOlder(Start, a, maxVelocity, acceleration, forwards, nerr, sch)} :
       Commit(m1, [op |-> "homeBoth", axis |-> a, before |-> AxisFields(a),
                   newer |-> Outcome(m1, params[a], m1.status),
                   older |-> Outcome(old, params[a], old.status)])
  /\ UNCHANGED <<axisVars, params, lastPollRet, sumTarget, sumSteps>>

StopBoth(a, acceleration, sch) ==
  /\ Idle
  /\ \E m1 \in {stop(Start, a, acceleration, sch)} :
       Commit(m1, [op |-> "stopBoth", axis |-> a, before |-> AxisFields(a),
                   newer |-> Outcome(m1, params[a], m1.status),
                   older |-> Outcome(m1, params[a], m1.status)])
  /\ UNCHANGED <<axisVars, params, lastPollRet, sumTarget, sumSteps>>

SetPositionBoth(a, position, sch) ==
  /\ Idle
  /\ \E m1 \in {setPosition(Start, a, position, sch)} :
       Commit(m1, [op |-> "setPositionBoth", axis |-> a, before |-> AxisFields(a),
                   newer |-> Outcome(m1, params[a], m1.status),
                   older |-> Outcome(m1, params[a], m1.status)])
  /\ UNCHANGED <<axisVars, params, lastPollRet, sumTarget, sumSteps>>

\* what the threads leave alone: the state of the driver
driverVars == <<oldStatus_, axisVars, motorStatusCommsError_, params, sent, lastOp,
                okSinceBroadcast, lastPollRet, sumTarget, sumSteps>>

\* thread t is called to run an operation with the exchanges todo, and
\* waits for the lock
Request(t, todo) ==
  /\ conc.pc[t] = "idle"
  /\ todo # <<>>
  /\ conc' = [conc EXCEPT !.pc[t] = "waiting", !.todo[t] = todo]
  /\ UNCHANGED driverVars

\* lock()
Acquire(t) ==
  /\ conc.pc[t] = "waiting"
  /\ Free(conc.owner)
  /\ conc' = [conc EXCEPT !.owner = t, !.pc[t] = "format"]
  /\ UNCHANGED driverVars

\* snprintf(pC_->outString_, ...)
Format(t) ==
  /\ conc.pc[t] = "format"
  /\ conc' = [conc EXCEPT !.outString_ = Head(conc.todo[t]).cmd,
                          !.mine[t] = Head(conc.todo[t]).cmd,
                          !.pc[t] = "exchange"]
  /\ UNCHANGED driverVars

\* writeController() or writeReadController(): what is in outString_ goes
\* on the stream, and the answer to it into inString_
Exchange(t) ==
  /\ conc.pc[t] = "exchange"
  /\ conc' = [conc EXCEPT
       !.lastSent = [by |-> t, cmd |-> conc.outString_, formatted |-> conc.mine[t]],
       !.inString_ = IF Head(conc.todo[t]).reads THEN Reply(conc.outString_) ELSE @,
       !.todo[t] = IF Head(conc.todo[t]).reads THEN @ ELSE Tail(@),
       !.pc[t] = IF Head(conc.todo[t]).reads THEN "parse"
                 ELSE IF Tail(conc.todo[t]) = <<>> THEN "done" ELSE "format"]
  /\ UNCHANGED driverVars

\* atoi(pC_->inString_), strtod(pC_->inString_, NULL)
Parse(t) ==
  /\ conc.pc[t] = "parse"
  /\ conc' = [conc EXCEPT
       !.lastParsed = [by |-> t, response |-> conc.inString_, own |-> conc.mine[t]],
       !.todo[t] = Tail(@),
       !.pc[t] = IF Tail(conc.todo[t]) = <<>> THEN "done" ELSE "format"]
  /\ UNCHANGED driverVars

\* unlock()
Release(t) ==
  /\ conc.pc[t] = "done"
  /\ conc' = [conc EXCEPT !.owner = "none", !.pc[t] = "idle", !.mine[t] = NoString]
  /\ UNCHANGED driverVars

\* The operation returns to its caller and the controller is unlocked: the
\* record of the operation (sent, lastOp) is dropped, the driver's state stays.
Return ==
  /\ ~Idle
  /\ sent' = <<>>
  /\ lastOp' = [op |-> "none"]
  /\ UNCHANGED <<oldStatus_, axisVars, motorStatusCommsError_, params, okSinceBroadcast,
                 lastPollRet, sumTarget, sumSteps, conc>>

(***************************************************************************)
(* The inputs.                                                             *)
(***************************************************************************)
\* status words the device answers: no sensor and idle; 0x00A3 (moving,
\* closed loop active, sensor present, referenced); 0x00E0 (sensor present,
\* calibrated, referenced, idle)
StatusWords == {0, 163, 224}
\* the device answers 1500 to :POS?, 2000 to :POS:TARG? (in pm), 300 to
\* :PTYP? and 5000 to :MCLF?
Answers(stat, nerr) == Responses(stat, 1500, 2000, 300, 5000, nerr)
PollAnswers == {Answers(stat, nerr) : stat \in StatusWords, nerr \in 0 .. MaxErrQueue}
\* the exchanges of the longest poll
PollLen == 7 + MaxErrQueue
Positions == (-MaxPos) .. MaxPos
\* the velocity and the acceleration the callers give
Velocities == {7}
Accelerations == {5}
\* the link answers every exchange of a move, or fails its first
MoveSchedules == {AllOk, Outage(1, 1, asynError)}
\* step sizes in pm: forward 300, reverse 700, or 0 (not set)
StepSizesF == {0, 300}
StepSizesR == {0, 700}

(***************************************************************************)
(* Spec: the controller with all its axes, the poller and the callers,     *)
(* over a link that fails.  The device answers every status read with      *)
(* 0x00E0 and reports an empty error queue.                                *)
(***************************************************************************)
LinkAnswers == Answers(224, 0)

Next ==
  \/ \E a \in Axes, sch \in Failures(7) : Poll(a, LinkAnswers, sch)
  \/ \E a \in Axes, maxVelocity \in Velocities, acceleration \in Accelerations,
        sch \in Failures(4) : Move(a, 0, 0, maxVelocity, acceleration, sch)
  \/ \E a \in Axes, maxVelocity \in Velocities, acceleration \in Accelerations,
        sch \in Failures(8) : Home(a, maxVelocity, acceleration, 1, 0, sch)
  \/ \E a \in Axes, acceleration \in Accelerations, sch \in Failures(1) :
        Stop(a, acceleration, sch)
  \/ \E a \in Axes, sch \in Failures(1) : SetPosition(a, 1, sch)
  \/ Return

Spec == Init /\ [][Next]_vars

(***************************************************************************)
(* SpecPoll: one axis, its poller and the callers that set its flags, over *)
(* a link that fails and a device that answers any of the status words.    *)
(***************************************************************************)
NextPoll ==
  \/ \E r \in PollAnswers, sch \in Failures(PollLen) : Poll(0, r, sch)
  \/ \E value \in {0, 1} : SetIntegerParam(0, "openLoop_", value, AllOk)
  \/ \E closedLoop \in BOOLEAN, sch \in Failures(1) : SetClosedLoop(0, closedLoop, sch)
  \/ \E maxVelocity \in Velocities, acceleration \in Accelerations, sch \in Failures(4) :
        Move(0, 0, 0, maxVelocity, acceleration, sch)
  \/ Return

SpecPoll == InitOne /\ [][NextPoll]_vars

(***************************************************************************)
(* SpecMove: one axis and its moves.                                       *)
(***************************************************************************)
NextMove ==
  \/ \E position \in Positions, relative \in {0, 1}, maxVelocity \in Velocities,
        acceleration \in Accelerations, sch \in MoveSchedules :
        Move(0, position, relative, maxVelocity, acceleration, sch)
  \/ Poll(0, LinkAnswers, AllOk)
  \/ \E value \in {0, 1} : SetIntegerParam(0, "openLoop_", value, AllOk)
  \/ \E value \in StepSizesF : SetDoubleParam(0, "stepsizef_", value)
  \/ \E value \in StepSizesR : SetDoubleParam(0, "stepsizer_", value)
  \/ Return

SpecMove == InitOne /\ [][NextMove]_vars

(***************************************************************************)
(* SpecLive: the poller and a caller that homes, over a link that fails.   *)
(* An operation that has started returns: every exchange ends within the   *)
(* transport's timeout.  That the poller (a thread of its own, started by  *)
(* startPoller) polls every axis again and again is the hypothesis of the  *)
(* recovery property, stated there.                                        *)
(***************************************************************************)
\* the link answers every exchange of a poll, or fails one of them
PollFailures == {AllOk} \cup {Outage(k, k, e) : k \in 1 .. 7, e \in TransportErrors}

PollAxis(a) == \E sch \in PollFailures : Poll(a, LinkAnswers, sch)

NextLive ==
  \/ \E a \in Axes : PollAxis(a)
  \/ \E maxVelocity \in Velocities, acceleration \in Accelerations,
        sch \in {AllOk, Outage(1, 8, asynTimeout)} :
        Home(0, maxVelocity, acceleration, 1, 0, sch)
  \/ Return

SpecLive ==
  /\ Init
  /\ [][NextLive]_vars
  /\ WF_vars(Return)

(***************************************************************************)
(* SpecFreq: one axis, its moves and its step-count writes, with           *)
(* velocities and step frequencies at and beyond the limits.               *)
(***************************************************************************)
\* velocities the callers give: none, small, the largest step frequency,
\* more than an unsigned short holds
FreqVelocities == {0, 7, 20000, 70000}
\* values written to the step-frequency parameter
RequestedFrequencies == {-1, 0, 20000, 70000}
\* values written to the step-count parameter
StepCounts == {5}
\* forward step sizes in pm: not set, 300, and 3000 (more than the 1000 pm
\* of the shortest move)
FreqStepSizesF == {0, 300, 3000}

NextFreq ==
  \/ \E position \in Positions, relative \in {0, 1}, maxVelocity \in FreqVelocities,
        acceleration \in Accelerations :
        Move(0, position, relative, maxVelocity, acceleration, AllOk)
  \/ \E value \in RequestedFrequencies : SetIntegerParam(0, "stepfreq_", value, AllOk)
  \/ \E value \in StepCounts : SetIntegerParam(0, "stepcnt_", value, AllOk)
  \/ \E value \in {0, 1} : SetIntegerParam(0, "openLoop_", value, AllOk)
  \/ \E value \in FreqStepSizesF : SetDoubleParam(0, "stepsizef_", value)
  \/ \E value \in StepSizesR : SetDoubleParam(0, "stepsizer_", value)
  \/ Return

SpecFreq == InitOne /\ [][NextFreq]_vars

(***************************************************************************)
(* SpecDecode: one axis and its poller, with a device that answers status  *)
(* words of many bit patterns, and the caller that sets the open-loop      *)
(* flag.                                                                   *)
(***************************************************************************)
\* the positions of the bits poll decodes, and of one it does not (bit 2)
DecodeBits == {0, 1, 2, 5, 6, 7, 8, 10, 11, 15}

\* no bit, every single bit, every pair of bits, 0x00A3 and all bits
DecodeBitSets ==
  {S \in SUBSET DecodeBits : Cardinality(S) <= 2} \cup {{0, 1, 5, 7}, DecodeBits}

DecodeAnswers == {Answers(Word(S), 0) : S \in DecodeBitSets}

\* the link answers every exchange, or fails the first: the setup command
\* of a first poll, the status read of a later one
DecodeSchedules == {AllOk, Outage(1, 1, asynTimeout)}

NextDecode ==
  \/ \E r \in DecodeAnswers, sch \in DecodeSchedules : Poll(0, r, sch)
  \/ \E value \in {0, 1} : SetIntegerParam(0, "openLoop_", value, AllOk)
  \/ Return

SpecDecode == InitOne /\ [][NextDecode]_vars

(***************************************************************************)
(* SpecText: one axis and its poller, with a device that answers status    *)
(* words in which the conditions of the status text hold in many           *)
(* combinations, over a link that fails.                                   *)
(***************************************************************************)
\* the bits of the conditions below not-homed and not-calibrated, by
\* priority: movement failed (11), following limit (10), positioner fault
\* (17), positioner overload (13), overtemperature (14)
LowerBits == <<11, 10, 17, 13, 14>>

\* sensor present or not (bit 5), calibrated or not (6), referenced or not
\* (7), with none of the lower conditions, each one alone, each one with
\* all below it, and all of them
TextBitSets ==
  {base \cup lower :
     base \in SUBSET {5, 6, 7},
     lower \in {{}} \cup {{LowerBits[i]} : i \in 1 .. 5}
                   \cup {{LowerBits[j] : j \in i .. 5} : i \in 1 .. 5}}

TextAnswers == {Answers(Word(S), 0) : S \in TextBitSets}

\* the link answers every exchange, or fails the first, or the third
TextSchedules == {AllOk, Outage(1, 1, asynTimeout)}

NextText ==
  \/ \E r \in TextAnswers, sch \in TextSchedules : Poll(0, r, sch)
  \/ \E value \in {0, 1} : SetIntegerParam(0, "openLoop_", value, AllOk)
  \/ Return

SpecText == InitOne /\ [][NextText]_vars

(***************************************************************************)
(* SpecCmd: one axis and the callers of its commands (move, home, stop,    *)
(* setPosition), over a link that fails and a device whose error queue     *)
(* holds entries or not.                                                   *)
(***************************************************************************)
\* the accelerations given to stop
StopAccelerations == {0, 5}

NextCmd ==
  \/ \E position \in Positions, relative \in {0, 1}, maxVelocity \in Velocities,
        acceleration \in Accelerations, sch \in Failures(4) :
        Move(0, position, relative, maxVelocity, acceleration, sch)
  \/ \E maxVelocity \in Velocities, acceleration \in Accelerations, forwards \in {0, 1},
        nerr \in 0 .. MaxErrQueue, sch \in Failures(MaxExchanges) :
        Home(0, maxVelocity, acceleration, forwards, nerr, sch)
  \/ \E acceleration \in StopAccelerations, sch \in Failures(1) : Stop(0, acceleration, sch)
  \/ \E position \in Positions, sch \in Failures(1) : SetPosition(0, position, sch)
  \/ \E value \in {0, 1} : SetIntegerParam(0, "openLoop_", value, AllOk)
  \/ Return

SpecCmd == InitOne /\ [][NextCmd]_vars

(***************************************************************************)
(* SpecFrame: one axis polled cycle after cycle by a device whose answers  *)
(* change from one cycle to the next, over a link that fails any one       *)
(* exchange of a poll.                                                     *)
(***************************************************************************)
\* idle without sensor; 0x0021 (moving, sensor present); 0x00E0
FrameStatusWords == {0, 33, 224}
\* the answers to :POS?, :POS:TARG?, :PTYP? and :MCLF? of two cycles
FrameValues == {<<1500, 2000, 300, 5000>>, <<1501, 2001, 301, 5001>>}
FrameAnswers ==
  {Responses(stat, v[1], v[2], v[3], v[4], 0) : stat \in FrameStatusWords, v \in FrameValues}
FrameSchedules == {AllOk} \cup {Outage(k, k, asynTimeout) : k \in 1 .. 7}

NextFrame ==
  \/ \E r \in FrameAnswers, sch \in FrameSchedules : PollCycle(0, r, sch)
  \/ \E value \in {0, 1} : SetIntegerParam(0, "openLoop_", value, AllOk)
  \/ Return

SpecFrame == InitOne /\ [][NextFrame]_vars

(***************************************************************************)
(* SpecTarget: one axis, its moves and the calls between them that send    *)
(* commands but are no moves, over a link that fails.                      *)
(***************************************************************************)
TargetSchedules == {AllOk, Outage(1, 1, asynTimeout)}

NextTarget ==
  \/ \E position \in Positions, relative \in {0, 1}, maxVelocity \in Velocities,
        acceleration \in Accelerations, sch \in TargetSchedules :
        Move(0, position, relative, maxVelocity, acceleration, sch)
  \/ \E position \in Positions, sch \in TargetSchedules : SetPosition(0, position, sch)
  \/ \E acceleration \in Accelerations, sch \in TargetSchedules : Stop(0, acceleration, sch)
  \/ \E maxVelocity \in Velocities, acceleration \in Accelerations, forwards \in {0, 1},
        sch \in TargetSchedules : Home(0, maxVelocity, acceleration, forwards, 0, sch)
  \/ \E closedLoop \in BOOLEAN, sch \in TargetSchedules : SetClosedLoop(0, closedLoop, sch)
  \/ \E value \in {0, 1} : SetIntegerParam(0, "openLoop_", value, AllOk)
  \/ Return

SpecTarget == InitOne /\ [][NextTarget]_vars

(***************************************************************************)
(* SpecMoveFail: one axis and its moves in every mode, over a link that    *)
(* fails the first, some or all of the commands of a move.                 *)
(***************************************************************************)
MoveFailures ==
  {AllOk, Outage(1, 1, asynError), Outage(2, 3, asynTimeout), Outage(1, 4, asynTimeout)}

NextMoveFail ==
  \/ \E position \in Positions, relative \in {0, 1}, maxVelocity \in Velocities,
        acceleration \in Accelerations, sch \in MoveFailures :
        Move(0, position, relative, maxVelocity, acceleration, sch)
  \/ \E value \in {0, 1} : SetIntegerParam(0, "openLoop_", value, AllOk)
  \/ \E value \in StepSizesF : SetDoubleParam(0, "stepsizef_", value)
  \/ \E value \in StepSizesR : SetDoubleParam(0, "stepsizer_", value)
  \/ Return

SpecMoveFail == InitOne /\ [][NextMoveFail]_vars

(***************************************************************************)
(* SpecSetup: every axis, its poller and every call that sends commands,   *)
(* over a link that fails the first or all of the exchanges of a call.     *)
(***************************************************************************)
SetupSchedules == {AllOk, Outage(1, 1, asynTimeout), Outage(1, MaxExchanges, asynError)}

NextSetup ==
  \/ \E a \in Axes, sch \in SetupSchedules : Poll(a, LinkAnswers, sch)
  \/ \E a \in Axes, maxVelocity \in Velocities, acceleration \in Accelerations,
        sch \in SetupSchedules : Move(a, 0, 0, maxVelocity, acceleration, sch)
  \/ \E a \in Axes, maxVelocity \in Velocities, acceleration \in Accelerations,
        sch \in SetupSchedules : Home(a, maxVelocity, acceleration, 1, 0, sch)
  \/ \E a \in Axes, acceleration \in Accelerations, sch \in SetupSchedules :
        Stop(a, acceleration, sch)
  \/ \E a \in Axes, sch \in SetupSchedules : SetPosition(a, 1, sch)
  \/ \E a \in Axes, sch \in SetupSchedules : SetClosedLoop(a, TRUE, sch)
  \/ \E a \in Axes, sch \in SetupSchedules : SetIntegerParam(a, "mclf_", 3, sch)
  \/ Return

SpecSetup == Init /\ [][NextSetup]_vars

(***************************************************************************)
(* SpecPower: one axis polled by a device whose amplifier the caller       *)
(* switches: the status words have the amplifier bit set or clear, moving  *)
(* or idle.                                                                *)
(***************************************************************************)
\* 0x00E0 and 0x00E1, and the same with the amplifier enabled
PowerStatusWords == {224, 225, 224 + CH_STATE_AMPLIFIER_ENABLED, 225 + CH_STATE_AMPLIFIER_ENABLED}
PowerAnswers == {Answers(stat, 0) : stat \in PowerStatusWords}
PowerSchedules == {AllOk, Outage(1, 1, asynTimeout), Outage(3, 3, asynTimeout)}

NextPower ==
  \/ \E r \in PowerAnswers, sch \in PowerSchedules : Poll(0, r, sch)
  \/ \E closedLoop \in BOOLEAN, sch \in PowerSchedules : SetClosedLoop(0, closedLoop, sch)
  \/ Return

SpecPower == InitOne /\ [][NextPower]_vars

(***************************************************************************)
(* SpecRet: every axis and its poller, over a link that fails one exchange *)
(* of a poll, or all of them, with any status of the transport.            *)
(***************************************************************************)
RetErrors == {asynTimeout, asynError, asynDisconnected}
RetSchedules ==
  {AllOk} \cup {Outage(k, k, e) : k \in 1 .. PollLen, e \in RetErrors}
          \cup {Outage(1, MaxExchanges, e) : e \in RetErrors}
RetAnswers == {Answers(224, nerr) : nerr \in 0 .. MaxErrQueue}

NextRet ==
  \/ \E a \in Axes, r \in RetAnswers, sch \in RetSchedules : Poll(a, r, sch)
  \/ Return

SpecRet == Init /\ [][NextRet]_vars

(***************************************************************************)
(* SpecBoth: one axis with the open-loop flag clear and no step size set,  *)
(* its polls, moves, homing, stops and position settings in the two        *)
(* revisions.                                                              *)
(***************************************************************************)
BothAnswers == {Answers(stat, 0) : stat \in {0, 224, 225}}

BothSchedules == {AllOk, Outage(2, 2, asynTimeout)}

NextBoth ==
  \/ \E r \in BothAnswers, ampl \in {0, 1}, sch \in BothSchedules : PollBoth(0, r, ampl, sch)
  \/ \E position \in Positions, relative \in {0, 1}, maxVelocity \in {7, 70000},
        acceleration \in Accelerations, sch \in BothSchedules :
        MoveBoth(0, position, relative, maxVelocity, acceleration, sch)
  \/ \E maxVelocity \in Velocities, acceleration \in Accelerations, forwards \in {0, 1},
        nerr \in 0 .. MaxErrQueue, sch \in BothSchedules :
        HomeBoth(0, maxVelocity, acceleration, forwards, nerr, sch)
  \/ \E acceleration \in Accelerations, sch \in Failures(1) : StopBoth(0, acceleration, sch)
  \/ \E position \in Positions, sch \in Failures(1) : SetPositionBoth(0, position, sch)
  \/ Return

SpecBoth == InitOne /\ [][NextBoth]_vars

(***************************************************************************)
(* SpecConc: the poller thread polling axis 0 and a caller's thread moving *)
(* or homing it, over a link that answers.                                 *)
(***************************************************************************)
PollerExchanges ==
  {ExchangesOf(poll(Start, 0, ipd, sensorPresent_[0], openLoop_[0], params[0], LinkAnswers,
                    AllOk).m.log) : ipd \in {0, 1}}

CallerExchanges ==
  {ExchangesOf(move(Start, 0, AxisFields(0), params[0], 1, 0, 7, 5, 7, AllOk).m.log),
   ExchangesOf(home(Start, 0, 7, 5, 1, 1, AllOk).log)}

NextConc ==
  \/ \E todo \in PollerExchanges : Request("poller", todo)
  \/ \E todo \in CallerExchanges : Request("caller", todo)
  \/ \E t \in Threads : Acquire(t)
  \/ \E t \in Threads : Format(t)
  \/ \E t \in Threads : Exchange(t)
  \/ \E t \in Threads : Parse(t)
  \/ \E t \in Threads : Release(t)

SpecConc == InitOne /\ [][NextConc]_vars

(***************************************************************************)
(* SpecCtor: controllers constructed with up to MaxCtorAxes axes and any   *)
(* unused mask over them, over links that fail to connect or fail any one  *)
(* exchange or every exchange from one on.                                 *)
(***************************************************************************)
MaxCtorAxes == 3

CtorSchedules == Failures(3 + 2 * MaxErrQueue)

NextCtor ==
  \/ \E numAxes \in 0 .. MaxCtorAxes, unused \in SUBSET (0 .. MaxCtorAxes),
        connect \in {asynSuccess, asynError}, nerr \in 0 .. MaxErrQueue, sch \in CtorSchedules :
        Construct(numAxes, unused, connect, nerr, sch)
  \/ Return

SpecCtor == InitOne /\ [][NextCtor]_vars

(***************************************************************************)
(* SpecParam: the callers of every axis that write its parameters and      *)
(* switch its amplifier, and its poller, moves, homing, stop and           *)
(* setPosition, over a link that fails the first exchange of a write.      *)
(***************************************************************************)
WrittenParams == {"mclf_", "ptyp_", "hold_", "cal_"}

ParamSchedules == {AllOk, Outage(1, 1, asynTimeout)}

NextParam ==
  \/ \E a \in Axes, function \in WrittenParams, sch \in ParamSchedules :
        SetIntegerParam(a, function, 3, sch)
  \/ \E a \in Axes, sch \in {AllOk, Outage(3, 3, asynError)} :
        SetIntegerParam(a, "stepcnt_", 5, sch)
  \/ \E a \in Axes, closedLoop \in BOOLEAN, sch \in ParamSchedules :
        SetClosedLoop(a, closedLoop, sch)
  \/ \E a \in Axes : Poll(a, LinkAnswers, AllOk)
  \/ \E a \in Axes, maxVelocity \in Velocities, acceleration \in Accelerations :
        Move(a, 1, 0, maxVelocity, acceleration, AllOk)
  \/ \E a \in Axes, maxVelocity \in Velocities, acceleration \in Accelerations :
        Home(a, maxVelocity, acceleration, 1, 0, AllOk)
  \/ \E a \in Axes, acceleration \in Accelerations : Stop(a, acceleration, AllOk)
  \/ \E a \in Axes : SetPosition(a, 1, AllOk)
  \/ Return

SpecParam == InitOne /\ [][NextParam]_vars

(***************************************************************************)
(* SpecErr: the calls of clearErrors over error queues of up to three      *)
(* entries and every code of the table, and the polls of the axes between  *)
(* them, over links that fail any one exchange or from one exchange on.    *)
(***************************************************************************)
ErrorCodes == {0, 34, 259, -101, -103, -104, -108, -109, -113, -151, -350, -363, 42, -1}

ErrQueues == {<<>>, <<-103, 259>>, <<34, -350, 42>>} \cup {<<c>> : c \in ErrorCodes}

NextErr ==
  \/ \E codes \in ErrQueues, sch \in Failures(4) : ClearErrors(codes, sch)
  \/ \E a \in Axes, sch \in {AllOk, Outage(2, 2, asynTimeout)} : Poll(a, LinkAnswers, sch)
  \/ Return

SpecErr == Init /\ [][NextErr]_vars

(***************************************************************************)
(* SpecOlder: one axis of the older revision and its moves.  The older      *)
(* constructor leaves sensorPresent_ unset as the newer one does.          *)
(***************************************************************************)
NextOlder ==
  \/ \E position \in Positions, relative \in {0, 1}, maxVelocity \in FreqVelocities,
        acceleration \in Accelerations, sch \in MoveSchedules :
        MoveOlder(0, position, relative, maxVelocity, acceleration, sch)
  \/ Return

SpecOlder == InitOne /\ [][NextOlder]_vars

(***************************************************************************)
(* SpecOlderPoll: one axis of the older revision and its polls, over the    *)
(* status words of SpecText, with and without the sensor-present bit.       *)
(***************************************************************************)
OlderBitSets == {base \cup lower : base \in SUBSET {5, 6, 7}, lower \in {{}, {11}, {14}}}

OlderAnswers == {Answers(Word(S), 0) : S \in OlderBitSets}

OlderSchedules == {AllOk, Outage(1, 1, asynTimeout)}

NextOlderPoll ==
  \/ \E r \in OlderAnswers, ampl \in {0, 1}, sch \in OlderSchedules : PollOlder(0, r, ampl, sch)
  \/ Return

SpecOlderPoll == InitOne /\ [][NextOlderPoll]_vars

(***************************************************************************)
(* The properties.  They read the record of the last operation: sent, its  *)
(* exchanges in order, and lastOp, its arguments, its result and the       *)
(* fields of its axis before it (before).                                  *)
(***************************************************************************)
Exchanges == 1 .. Len(sent)
Failed(i) == sent[i].status # asynSuccess
Observed(i) == sent[i].via = "writeReadHandleDisconnect"
AllFlagged(comms) == \A a \in Axes : comms[a] = 1
Commands == [i \in Exchanges |-> sent[i].cmd]

PollReadFormats ==
  {":CHAN%d:STAT?", ":CHAN%d:POS?", ":CHAN%d:POS:TARG?", ":CHAN%d:PTYP?", ":CHAN%d:MCLF?"}
HoldFormat == ":CHAN%d:HOLD %d"
NoReadAfter(i) == \A j \in Exchanges : j > i => sent[j].cmd.fmt \notin PollReadFormats
PollAborted(a) ==
  /\ initialPollDone_[a] = 0
  /\ motorStatusCommsError_[a] = 1
  /\ params[a].errTxt_ = "E: Communication"
  /\ lastOp.ret = asynError

\* C3, as amended: if the setup command of a poll or one of its reads
\* (status, position, target, positioner type, MCLF) fails, the poll sends no
\* further read, leaves initialPollDone_ 0, sets the axis's comms-error
\* flag, publishes "E: Communication" and returns asynError; a poll in which
\* only queries of the error queue failed returns asynSuccess.
C3_FailedSetupOrReadAbortsPoll ==
  lastOp.op = "poll" =>
    /\ \A i \in Exchanges :
         Failed(i) /\ sent[i].cmd.fmt \in PollReadFormats \cup {HoldFormat}
           => NoReadAfter(i) /\ PollAborted(lastOp.axis)
    /\ lastOp.ret = asynError
         <=> \E i \in Exchanges : Failed(i) /\ sent[i].cmd.fmt \in PollReadFormats \cup {HoldFormat}

\* the position read of a poll fails after its status read succeeded
C3_Witness ==
  /\ lastOp.op = "poll"
  /\ \E i \in Exchanges : i > 1 /\ Failed(i) /\ sent[i].cmd.fmt = ":CHAN%d:POS?" /\ ~Failed(i - 1)

\* C3 as claimed: whichever exchange of a poll fails, the poll sends no
\* further read and ends aborted
C3_AsClaimed ==
  lastOp.op = "poll" =>
    \A i \in Exchanges : Failed(i) => NoReadAfter(i) /\ PollAborted(lastOp.axis)

HoldAt(i, a) == sent[i].cmd = Cmd(HoldFormat, <<a, params[a].hold_>>)

\* C4: the poll that follows a failed poll of the axis (and the first poll)
\* sends :CHAN<n>:HOLD as its first exchange, before the status read;
\* initialPollDone_ goes from 0 to 1 only in a poll whose :CHAN<n>:HOLD
\* succeeded; the poll that follows a successful poll sends no :CHAN<n>:HOLD.
C4_SetupAfterFailedPoll ==
  lastOp.op = "poll" =>
    LET a == lastOp.axis
    IN /\ lastOp.prevRet \in {asynError, "none"} => Len(sent) >= 1 /\ HoldAt(1, a)
       /\ lastOp.before.initialPollDone_ = 0 /\ initialPollDone_[a] = 1
            => Len(sent) >= 1 /\ HoldAt(1, a) /\ ~Failed(1)
       /\ lastOp.prevRet = asynSuccess => \A i \in Exchanges : sent[i].cmd.fmt # HoldFormat

\* a poll follows a failed poll, sends the setup again and succeeds
C4_Witness ==
  /\ lastOp.op = "poll"
  /\ lastOp.prevRet = asynError
  /\ lastOp.ret = asynSuccess
  /\ HoldAt(1, lastOp.axis)
  /\ initialPollDone_[lastOp.axis] = 1

LinkUp == \A i \in Exchanges : ~Failed(i)
Polled(a) == lastOp.op = "poll" /\ lastOp.axis = a
Recovered ==
  /\ \A a \in Axes : initialPollDone_[a] = 1
  /\ lastOp.op = "poll" => motorStatusCommsError_[lastOp.axis] = 0

\* C5: if from some point on every exchange succeeds and the poller polls
\* every axis again and again, then from some point on initialPollDone_ is
\* 1 for every axis and the comms-error flag of an axis is 0 when its poll
\* returns; no caller has to act.
C5_Recovery ==
  (<>[]LinkUp /\ \A a \in Axes : []<>Polled(a)) => <>[]Recovered

\* a poll of an axis succeeds after a failed one, and every axis is set up
C5_Witness ==
  /\ lastOp.op = "poll"
  /\ lastOp.prevRet = asynError
  /\ lastOp.ret = asynSuccess
  /\ Recovered

\* the encoding the next move of axis a uses, from the fields of the axis
Routing(a) == sensorPresent_[a] # 0 /\ openLoop_[a] = 0
OpenLoopFlagWritten(a) ==
  lastOp'.op = "setIntegerParam" /\ lastOp'.axis = a /\ lastOp'.function = "openLoop_"
SensorBitRead(a) ==
  /\ lastOp'.op = "poll" /\ lastOp'.axis = a
  /\ \E i \in 1 .. Len(sent') : sent'[i].cmd.fmt = ":CHAN%d:STAT?" /\ sent'[i].status = asynSuccess
  /\ (Bit(lastOp'.stat, CH_STATE_SENSOR_PRESENT) # 0) # (sensorPresent_[a] # 0)
ClosedLoopFormat(log) == Len(log) = 4 /\ log[4].cmd.fmt = ":MOVE%d %f"

\* C6, as amended: the routing of move changes only when the caller writes
\* the open-loop flag or when a poll reads a status word whose
\* sensor-present bit differs from the stored one; setClosedLoop does not
\* change it; and a move sends the closed-loop commands exactly when the
\* stored sensor-present flag is set and the open-loop flag is clear.
C6_RoutingChanges ==
  [][\A a \in Axes :
       /\ Routing(a)' # Routing(a) => OpenLoopFlagWritten(a) \/ SensorBitRead(a)
       /\ lastOp'.op = "move" /\ lastOp'.axis = a => (ClosedLoopFormat(sent') <=> Routing(a))]_vars

\* a poll of an axis that was polled with success before reads a status
\* word with another sensor-present bit, the open-loop flag clear
C6_Witness ==
  /\ lastOp.op = "poll"
  /\ lastOp.ret = asynSuccess
  /\ lastOp.before.initialPollDone_ = 1
  /\ lastOp.before.openLoop_ = 0
  /\ (Bit(lastOp.stat, CH_STATE_SENSOR_PRESENT) # 0) # (lastOp.before.sensorPresent_ # 0)

\* C6 as claimed, for an axis whose last poll succeeded: the routing
\* changes only when the caller writes the open-loop flag
C6_AsClaimed ==
  [][\A a \in Axes :
       initialPollDone_[a] = 1 /\ Routing(a)' # Routing(a) => OpenLoopFlagWritten(a)]_vars

MoveClosedLoop ==
  lastOp.op = "move" /\ lastOp.before.sensorPresent_ # 0 /\ lastOp.before.openLoop_ = 0
MoveOpenLoop ==
  lastOp.op = "move" /\ ~(lastOp.before.sensorPresent_ # 0 /\ lastOp.before.openLoop_ = 0)
MoveCalibrated == lastOp.before.stepsizef_ # 0 /\ lastOp.before.stepsizer_ # 0

\* C7: from the target 0 of a new axis, after any sequence of moves the
\* target stepTargetPos_nm_ is the last absolute position given plus the
\* relative positions given after it (sumTarget).
C7_TargetAccumulates ==
  \A a \in Axes : stepTargetPos_nm_[a] = sumTarget[a]

\* a relative closed-loop move adds to a target that was not 0
C7_Witness ==
  /\ MoveClosedLoop
  /\ lastOp.relative # 0
  /\ lastOp.position # 0
  /\ lastOp.before.stepTargetPos_nm_ # 0
  /\ stepTargetPos_nm_[lastOp.axis] = lastOp.before.stepTargetPos_nm_ + lastOp.position

\* C8: a move routed closed-loop sends exactly four commands, in this
\* order: :CHAN<n>:MMOD 1 (relative) or 0 (absolute), :CHAN<n>:ACC with the
\* acceleration times 1000, :CHAN<n>:VEL with the velocity times 1000,
\* :MOVE<n> with the position times 1000; whether they succeed or not.
C8_ClosedLoopCommands ==
  MoveClosedLoop =>
    Commands = << Cmd(":CHAN%d:MMOD %d", <<lastOp.axis, IF lastOp.relative = 1 THEN 1 ELSE 0>>),
                  Cmd(":CHAN%d:ACC %f", <<lastOp.axis, lastOp.acceleration * 1000>>),
                  Cmd(":CHAN%d:VEL %f", <<lastOp.axis, lastOp.maxVelocity * 1000>>),
                  Cmd(":MOVE%d %f", <<lastOp.axis, lastOp.position * 1000>>) >>

\* a relative closed-loop move backwards whose first command failed
C8_Witness ==
  /\ MoveClosedLoop
  /\ lastOp.relative = 1
  /\ lastOp.position < 0
  /\ Len(sent) = 4
  /\ Failed(1)

\* C9: a move routed open-loop whose step count is not 0 sends exactly
\* three commands, in this order: :CHAN<n>:MMOD 4, :CHAN<n>:STEP:FREQ with
\* the frequency, :MOVE<n> with the step count; with step sizes set and
\* without.
C9_OpenLoopCommands ==
  MoveOpenLoop /\ lastOp.steps # 0 =>
    Commands = << Cmd(":CHAN%d:MMOD 4", <<lastOp.axis>>),
                  Cmd(":CHAN%d:STEP:FREQ %u", <<lastOp.axis, params[lastOp.axis].stepfreq_>>),
                  Cmd(":MOVE%d %lld", <<lastOp.axis, lastOp.steps>>) >>

\* an axis with a sensor, switched to open loop and with both step sizes
\* set, moves forward by steps
C9_Witness ==
  /\ MoveOpenLoop
  /\ MoveCalibrated
  /\ lastOp.before.sensorPresent_ # 0
  /\ lastOp.steps > 0
  /\ Len(sent) = 3

\* n is delta_pm / size truncated toward zero (size > 0)
IsTruncatedQuotient(n, delta_pm, size) ==
  /\ n * delta_pm >= 0
  /\ Abs(n) * size <= Abs(delta_pm)
  /\ Abs(delta_pm) < (Abs(n) + 1) * size

\* C10: in an open-loop move with both step sizes set, the step count of
\* the :MOVE command is the distance in pm (1000 times the position for a
\* relative move, 1000 times the position minus the target before for an
\* absolute one) divided by the forward step size when positive and by the
\* reverse step size when negative, truncated toward zero; 5000 pm by steps
\* of 500 pm are 10 steps.
C10_CalibratedStepCount ==
  /\ TruncDiv(5000, 500) = 10
  /\ MoveOpenLoop /\ MoveCalibrated =>
       LET delta_nm == IF lastOp.relative # 0 THEN lastOp.position
                       ELSE lastOp.position - lastOp.before.stepTargetPos_nm_
           delta_pm == delta_nm * 1000
           size == IF delta_pm > 0 THEN lastOp.before.stepsizef_ ELSE lastOp.before.stepsizer_
       IN IF sent = <<>> THEN IsTruncatedQuotient(0, delta_pm, size)
          ELSE /\ Len(sent) = 3
               /\ sent[3].cmd.fmt = ":MOVE%d %lld"
               /\ IsTruncatedQuotient(sent[3].cmd.args[2], delta_pm, size)

\* a move backwards whose distance is no multiple of the reverse step size
C10_Witness ==
  /\ MoveOpenLoop
  /\ MoveCalibrated
  /\ Len(sent) = 3
  /\ sent[3].cmd.args[2] < 0
  /\ \A n \in -10 .. 10 :
       n * lastOp.before.stepsizer_ # 1000 * DistanceToGo(lastOp.before.stepTargetPos_nm_,
                                                          lastOp.position, lastOp.relative)

\* the values of the :CHAN<n>:STEP:FREQ commands of the last operation
StepFreqSent ==
  {sent[i].cmd.args[2] : i \in {j \in Exchanges : sent[j].cmd.fmt = ":CHAN%d:STEP:FREQ %u"}}

\* the last operation is a write of the step-count parameter
StepcntWrite == lastOp.op = "setIntegerParam" /\ lastOp.function = "stepcnt_"

\* C11, for the older revision of move: whenever the velocity given is
\* 20000 or more, the value sent in :CHAN<n>:STEP:FREQ is 20000.
C11_AsClaimed ==
  lastOp.op = "moveOlder" /\ lastOp.maxVelocity >= 20000 =>
    \A f \in StepFreqSent : f = 20000

\* C11, for the two paths of the newer revision: whenever the frequency an
\* open-loop move computes is 20000 or more, and whenever the step
\* frequency parameter holds 20000 or more at a write of the step count, the
\* value sent in :CHAN<n>:STEP:FREQ is 20000.
C11_NewerRevisionClamps ==
  /\ MoveOpenLoop /\ lastOp.steps # 0
       /\ RequestedFrequency(lastOp.before, lastOp.position, lastOp.relative,
                             lastOp.maxVelocity) >= 20000
     => StepFreqSent = {20000}
  /\ StepcntWrite /\ params[lastOp.axis].stepfreqDefined
       /\ params[lastOp.axis].stepfreq_ >= 20000
     => StepFreqSent = {20000}

\* a velocity of 70000 in an open-loop move of the newer revision
C11_Witness ==
  /\ MoveOpenLoop
  /\ lastOp.maxVelocity = 70000
  /\ StepFreqSent = {20000}

\* C12: every value sent in :CHAN<n>:STEP:FREQ lies in 1 .. 20000.
C12_AsClaimed ==
  \A f \in StepFreqSent : 1 <= f /\ f <= 20000

\* C12, the part that holds: every value sent in :CHAN<n>:STEP:FREQ by a
\* move lies in 0 .. 20000, and it is 0 only when the frequency computed
\* is 0 (or negative, which the model's callers do not give).
C12_MoveFrequencyRange ==
  lastOp.op = "move" =>
    \A f \in StepFreqSent :
       /\ 0 <= f /\ f <= 20000
       /\ f = 0 => RequestedFrequency(lastOp.before, lastOp.position, lastOp.relative,
                                      lastOp.maxVelocity) <= 0

\* C13: an open-loop move whose step count is 0 sends no command and
\* returns asynSuccess.
C13_ZeroStepsSendsNothing ==
  MoveOpenLoop /\ lastOp.steps = 0 => sent = <<>> /\ lastOp.ret = asynSuccess

\* a forward move of 1 nm with a forward step size of 3000 pm: the
\* distance is not 0, the step count is
C13_Witness ==
  /\ MoveOpenLoop
  /\ MoveCalibrated
  /\ DistanceToGo(lastOp.before.stepTargetPos_nm_, lastOp.position, lastOp.relative) > 0
  /\ lastOp.steps = 0
  /\ sent = <<>>

\* the exchanges of the last operation that carry its own commands (sent
\* by the axis method through writeController), without those of the drains
OwnExchanges == SelectSeq(sent, LAMBDA e : e.via = "writeController")
OwnFormats == [i \in 1 .. Len(OwnExchanges) |-> OwnExchanges[i].cmd.fmt]
HomeFormats == <<":CHAN%d:REF:OPT %d", ":CHAN%d:ACC %f", ":CHAN%d:VEL %f", ":REF%d">>

\* C14: whatever the transport answers, a move that sends commands sends
\* its whole sequence once (four commands closed-loop, three open-loop) and
\* returns the status of the last of them; home sends its four commands
\* once and returns the status of :REF<n>.
C14_SequenceRunsToItsEnd ==
  /\ lastOp.op = "move" /\ sent # <<>> =>
       /\ OwnFormats = IF MoveClosedLoop
                       THEN <<":CHAN%d:MMOD %d", ":CHAN%d:ACC %f", ":CHAN%d:VEL %f", ":MOVE%d %f">>
                       ELSE <<":CHAN%d:MMOD 4", ":CHAN%d:STEP:FREQ %u", ":MOVE%d %lld">>
       /\ Len(sent) = Len(OwnExchanges)
       /\ lastOp.ret = sent[Len(sent)].status
  /\ lastOp.op = "home" =>
       /\ OwnFormats = HomeFormats
       /\ lastOp.ret = OwnExchanges[4].status

\* a home whose first command timed out and whose last command and drain
\* succeeded
C14_Witness ==
  /\ lastOp.op = "home"
  /\ OwnExchanges[1].status = asynTimeout
  /\ OwnExchanges[4].status = asynSuccess
  /\ lastOp.ret = asynSuccess

\* C15: the option mask home sends in :CHAN<n>:REF:OPT is 4 when forwards
\* is not 0 and 5 when forwards is 0.
C15_ReferenceOptions ==
  lastOp.op = "home" =>
    sent[1].cmd = Cmd(":CHAN%d:REF:OPT %d",
                      <<lastOp.axis, IF lastOp.forwards = 0 THEN 5 ELSE 4>>)

\* a home backwards
C15_Witness ==
  /\ lastOp.op = "home"
  /\ lastOp.forwards = 0
  /\ sent[1].cmd.args[2] = 5

\* the exchange after exchange i is the count query of a drain
DrainFollows(i) ==
  /\ i < Len(sent)
  /\ sent[i + 1].cmd.fmt = ":SYST:ERR:COUN?"
  /\ sent[i + 1].via = "writeReadController"

\* C16: home sends :CHAN<n>:REF:OPT, :CHAN<n>:ACC (acceleration times 1000),
\* :CHAN<n>:VEL (velocity times 1000) and :REF<n> in this order; each of the
\* four, failed or not, is followed at once by the count query of a drain,
\* and only queries of the drain lie between it and the next command.
C16_HomeDrainsAfterEachCommand ==
  lastOp.op = "home" =>
    /\ [i \in 1 .. Len(OwnExchanges) |-> OwnExchanges[i].cmd]
         = HomeCommands(lastOp.axis, lastOp.maxVelocity, lastOp.acceleration, lastOp.forwards)
    /\ sent[1].via = "writeController"
    /\ \A i \in Exchanges :
         /\ sent[i].via = "writeController" => DrainFollows(i)
         /\ sent[i].via # "writeController" =>
              sent[i].cmd.fmt \in {":SYST:ERR:COUN?", ":SYST:ERR?"}
         /\ sent[i].cmd.fmt = ":SYST:ERR?" =>
              sent[i - 1].via = "writeReadController" /\ ~Failed(i - 1)

\* a home whose first command failed, with an entry in the error queue that
\* the drain after the failed command reads
C16_Witness ==
  /\ lastOp.op = "home"
  /\ Failed(1)
  /\ Len(sent) >= 3
  /\ sent[2].cmd.fmt = ":SYST:ERR:COUN?"
  /\ sent[3].cmd.fmt = ":SYST:ERR?"

\* C17: stop sends one command, :STOP<n>, whatever the acceleration;
\* setPosition sends one command, :CHAN<n>:POS with the position times 1000.
C17_StopAndSetPosition ==
  /\ lastOp.op = "stop" => Commands = << Cmd(":STOP%d", <<lastOp.axis>>) >>
  /\ lastOp.op = "setPosition" =>
       Commands = << Cmd(":CHAN%d:POS %f", <<lastOp.axis, lastOp.position * 1000>>) >>

\* a setPosition to -1
C17_Witness ==
  /\ lastOp.op = "setPosition"
  /\ lastOp.position = -1
  /\ sent[1].cmd.args[2] = -1000

\* a stop with an acceleration of 0
C17_WitnessStop ==
  /\ lastOp.op = "stop"
  /\ lastOp.acceleration = 0
  /\ Len(sent) = 1

\* the last operation is a poll whose status read succeeded
PollDecoded == lastOp.op = "poll" /\ lastOp.decoded # {}

\* the bits set in the status word the last poll read
StatusBits == CHOOSE S \in DecodeBitSets : Word(S) = lastOp.stat

\* 1 when bit k is set in the status word the last poll read, else 0
StatusBit(k) == IF k \in StatusBits THEN 1 ELSE 0

\* C18: each flag poll decodes from the status word is 1 exactly when its
\* own bit is set: moving bit 0, closed-loop-active bit 1, sensor-present
\* bit 5, is-calibrated bit 6, is-referenced bit 7, end-stop bit 8,
\* following-limit bit 10, movement-failed bit 11, reference-mark bit 15;
\* the parameters published from them agree; 0x00A3 gives moving,
\* closed-loop-active, sensor-present and is-referenced and no other.
C18_FlagsAreTheirBits ==
  /\ Decode(163) = [done |-> 0, closedLoop |-> 1, sensorPresent |-> 1, isCalibrated |-> 0,
                     isReferenced |-> 1, endStopReached |-> 0, followLimitReached |-> 0,
                     movementFailed |-> 0, refMark |-> 0, driveOn |-> 1]
  /\ PollDecoded =>
       /\ \A d \in lastOp.decoded :
            /\ d.done = 1 - StatusBit(0)
            /\ d.driveOn = StatusBit(0)
            /\ d.closedLoop = StatusBit(1)
            /\ d.sensorPresent = StatusBit(5)
            /\ d.isCalibrated = StatusBit(6)
            /\ d.isReferenced = StatusBit(7)
            /\ d.endStopReached = StatusBit(8)
            /\ d.followLimitReached = StatusBit(10)
            /\ d.movementFailed = StatusBit(11)
            /\ d.refMark = StatusBit(15)
       /\ sensorPresent_[lastOp.axis] = StatusBit(5)
       /\ params[lastOp.axis].motorStatusDone_ = 1 - StatusBit(0)
       /\ params[lastOp.axis].motorStatusPowerOn_ = StatusBit(0)
       /\ params[lastOp.axis].motorClosedLoop_ = StatusBit(1)
       /\ params[lastOp.axis].motorStatusHasEncoder_ = StatusBit(5)
       /\ params[lastOp.axis].motorStatusHomed_ = StatusBit(7)
       /\ params[lastOp.axis].motorStatusHighLimit_ = StatusBit(8)
       /\ params[lastOp.axis].motorStatusLowLimit_ = StatusBit(8)
       /\ params[lastOp.axis].motorStatusFollowingError_
            = (IF 10 \in StatusBits \/ 11 \in StatusBits THEN 1 ELSE 0)
       /\ params[lastOp.axis].motorStatusAtHome_ = StatusBit(15)

\* a poll that read the status word with bits 11 and 15 set
C18_Witness ==
  /\ PollDecoded
  /\ StatusBits = {11, 15}
  /\ params[lastOp.axis].motorStatusAtHome_ = 1
  /\ params[lastOp.axis].motorStatusHomed_ = 0

\* C19, as amended: the moving value poll returns is TRUE exactly when the
\* actively-moving bit (0x0001) of the status word is set; what is the NOT
\* of that bit is done, published as motorStatusDone_.
C19_MovingIsTheMovingBit ==
  PollDecoded =>
    /\ lastOp.moving = (0 \in StatusBits)
    /\ params[lastOp.axis].motorStatusDone_ = (IF 0 \in StatusBits THEN 0 ELSE 1)

\* a poll that read 0x00A3 and returned moving
C19_Witness ==
  /\ PollDecoded
  /\ lastOp.stat = 163
  /\ lastOp.moving

\* C19 as claimed: the moving value poll returns is the NOT of the
\* actively-moving bit.
C19_AsClaimed ==
  PollDecoded => lastOp.moving = ~(0 \in StatusBits)

\* the reads of the last operation, in order
ReadFormats ==
  LET reads == SelectSeq(sent, LAMBDA e : e.via = "writeReadHandleDisconnect")
  IN [i \in 1 .. Len(reads) |-> reads[i].cmd.fmt]

\* C20: in a poll all of whose exchanges succeed the reads are, in this
\* order: the status; the position if bit 5 (sensor present) of the status
\* word is set; the target position if bit 5 is set and the open-loop flag
\* is 0; the positioner type; MCLF if bit 0 (actively moving) is clear.
C20_ReadsOfASuccessfulPoll ==
  lastOp.op = "poll" /\ (\A i \in Exchanges : ~Failed(i)) =>
    ReadFormats =
      <<":CHAN%d:STAT?">>
      \o (IF 5 \in StatusBits THEN <<":CHAN%d:POS?">> ELSE <<>>)
      \o (IF 5 \in StatusBits /\ lastOp.before.openLoop_ = 0
          THEN <<":CHAN%d:POS:TARG?">> ELSE <<>>)
      \o <<":CHAN%d:PTYP?">>
      \o (IF 0 \in StatusBits THEN <<>> ELSE <<":CHAN%d:MCLF?">>)

\* a poll with the open-loop flag set of an axis that has a sensor and
\* moves: status, position and positioner type are read, no more
C20_Witness ==
  /\ lastOp.op = "poll"
  /\ \A i \in Exchanges : ~Failed(i)
  /\ StatusBits = {0, 5}
  /\ lastOp.before.openLoop_ = 1
  /\ ReadFormats = <<":CHAN%d:STAT?", ":CHAN%d:POS?", ":CHAN%d:PTYP?">>

\* the bits set in the status word the last poll was answered
TextBits == CHOOSE S \in TextBitSets : Word(S) = lastOp.stat

\* the texts by priority, the highest first
TextsByPriority ==
  <<"E: Communication", "E: Axis not homed", "E: Not calibrated", "E: movement failed",
    "E: follow limit", "positioner fault", "positioner overload", "overtemperature">>

\* condition i of the priority list applies to the last poll; guard says
\* whether not-homed and not-calibrated may apply
ConditionApplies(i, guard) ==
  CASE i = 1 -> lastOp.ret # asynSuccess
    [] i = 2 -> guard /\ 7 \notin TextBits
    [] i = 3 -> guard /\ 6 \notin TextBits
    [] OTHER -> LowerBits[i - 3] \in TextBits

\* the text of the first condition that applies, or the empty text
TextExpected(guard) ==
  IF \E i \in 1 .. 8 : ConditionApplies(i, guard)
  THEN TextsByPriority[CHOOSE i \in 1 .. 8 :
                         /\ ConditionApplies(i, guard)
                         /\ \A j \in 1 .. (i - 1) : ~ConditionApplies(j, guard)]
  ELSE ""

\* C21, for the newer revision: the status text poll publishes is that of
\* the highest-priority condition that applies, in the order communication
\* error, not homed, not calibrated, movement failed, following limit,
\* positioner fault, positioner overload, overtemperature, else empty, where
\* not homed and not calibrated apply only when the status word has the
\* sensor-present bit and the open-loop flag is 0.
C21_TextOfHighestPriority ==
  lastOp.op = "poll" =>
    params[lastOp.axis].errTxt_
      = TextExpected(5 \in TextBits /\ lastOp.before.openLoop_ = 0)

\* an axis with a sensor, closed loop, neither referenced nor calibrated,
\* with all the lower conditions: the text is that of not homed
C21_Witness ==
  /\ lastOp.op = "poll"
  /\ lastOp.ret = asynSuccess
  /\ lastOp.before.openLoop_ = 0
  /\ TextBits = {5, 10, 11, 13, 14, 17}
  /\ params[lastOp.axis].errTxt_ = "E: Axis not homed"

\* C21 as it is stated, for the older revision (which has no open-loop
\* flag): the text its poll publishes is that of the highest-priority
\* condition, not homed and not calibrated applying only when the status
\* word has the sensor-present bit.
C21_AsClaimed ==
  lastOp.op = "pollOlder" => params[lastOp.axis].errTxt_ = TextExpected(5 \in TextBits)

\* the exchanges of the last operation all succeeded
AllSucceeded == \A i \in Exchanges : ~Failed(i)

\* C22: clearErrors sends the count query and then entry reads only, no
\* more than the count the device answered and all of them when every
\* exchange succeeds (so one exchange, and success, whenever the queue is
\* empty and the query is answered, however often it is called); no
\* exchange follows one that failed; and it returns success exactly when
\* every exchange it made succeeded.
C22_ClearErrorsExchanges ==
  lastOp.op = "clearErrors" =>
    /\ Len(sent) >= 1
    /\ sent[1].cmd = Cmd(":SYST:ERR:COUN?", <<>>)
    /\ \A i \in 2 .. Len(sent) : sent[i].cmd = Cmd(":SYST:ERR?", <<>>)
    /\ Len(sent) <= 1 + Len(lastOp.codes)
    /\ AllSucceeded => Len(sent) = 1 + Len(lastOp.codes)
    /\ \A i \in 1 .. (Len(sent) - 1) : ~Failed(i)
    /\ lastOp.ret \in {asynSuccess, asynError}
    /\ lastOp.ret = asynSuccess <=> AllSucceeded

\* a queue of three entries is read to its second entry, whose read fails
C22_Witness ==
  /\ lastOp.op = "clearErrors"
  /\ Len(lastOp.codes) = 3
  /\ Len(sent) = 3
  /\ Failed(3)
  /\ lastOp.ret = asynError

\* a call with an empty queue, after an earlier call with an empty queue
\* left every comms-error flag set: one exchange, success
C22_WitnessEmpty ==
  /\ lastOp.op = "clearErrors"
  /\ lastOp.codes = <<>>
  /\ \A a \in Axes : lastOp.commsBefore[a] = 1
  /\ Len(sent) = 1
  /\ lastOp.ret = asynSuccess

\* C23 as it is stated: a clearErrors call whose exchanges all succeeded
\* leaves the comms-error flag of every axis as it was before the call.
C23_AsClaimed ==
  lastOp.op = "clearErrors" /\ AllSucceeded => motorStatusCommsError_ = lastOp.commsBefore

\* what holds in its place: whatever its exchanges did, the call leaves the
\* comms-error flag of every axis at 1
C23_FlagsSetByClearErrors ==
  lastOp.op = "clearErrors" => \A a \in Axes : motorStatusCommsError_[a] = 1

\* the table of error texts as the claim gives it
TableText(errorCode) ==
  CASE errorCode = 0 -> Cmd("No error", <<>>)
    [] errorCode = 34 -> Cmd("Invalid channel index", <<>>)
    [] errorCode = 259 -> Cmd("No sensor present", <<>>)
    [] errorCode = -101 -> Cmd("Invalid character", <<>>)
    [] errorCode = -103 -> Cmd("Invalid separator", <<>>)
    [] errorCode = -104 -> Cmd("Data type error", <<>>)
    [] errorCode = -108 -> Cmd("Parameter not allowed", <<>>)
    [] errorCode = -109 -> Cmd("Missing parameter", <<>>)
    [] errorCode = -113 -> Cmd("Command not exist", <<>>)
    [] errorCode = -151 -> Cmd("Invalid string", <<>>)
    [] errorCode = -350 -> Cmd("Queue overflow", <<>>)
    [] errorCode = -363 -> Cmd("Buffer overrun", <<>>)
    [] OTHER -> Cmd("Unable to decode %d", <<errorCode>>)

\* C24 as it is stated: the text logged for every entry read from the queue
\* is the one the table gives for its code, "Unable to decode N" for a code
\* N the table does not have.
C24_AsClaimed ==
  lastOp.op = "clearErrors" =>
    \A i \in 1 .. Len(lastOp.printed) : lastOp.printed[i] = TableText(lastOp.codes[i])

\* what holds in its place: the text is the one of the table for every code
\* but -103, whose text is spelled "Invalid seperator"
C24_TableButOneSpelling ==
  lastOp.op = "clearErrors" =>
    \A i \in 1 .. Len(lastOp.printed) :
       lastOp.printed[i] = IF lastOp.codes[i] = -103 THEN Cmd("Invalid seperator", <<>>)
                           ELSE TableText(lastOp.codes[i])

\* the parameter writes whose command is sent with the value
ValueWrites == {"hold_", "mclf_", "ptyp_"}

\* C25 as it is stated: a write of the hold time, of MCLF or of the
\* positioner type whose command fails at the transport returns a failure.
C25_AsClaimed ==
  lastOp.op = "setIntegerParam" /\ lastOp.function \in ValueWrites /\ Len(sent) = 1 /\ Failed(1)
    => lastOp.ret # asynSuccess

\* what holds in its place: these writes send one command and return
\* success whatever became of it, while the calibration command and the
\* step move return the status of their last command
C25_StatusOfTheBaseClass ==
  lastOp.op = "setIntegerParam" =>
    /\ lastOp.function \in ValueWrites => Len(sent) = 1 /\ lastOp.ret = asynSuccess
    /\ lastOp.function \in {"cal_", "stepcnt_"} => lastOp.ret = sent[Len(sent)].status

\* the commands that name the channel after their keyword
ChannelLast == {":MOVE%d %f", ":MOVE%d %lld", ":MOVE%d %d", ":REF%d", ":STOP%d", ":CAL%d"}

\* C27 as it is stated: every command of an operation of axis n that is not
\* a command of the controller has the form ":CHAN<n><LEAF>", or, for the
\* move, stop, reference and calibrate commands, ":<LEAF><n>".
C27_AsClaimed ==
  lastOp.op \notin {"none", "clearErrors"} =>
    \A i \in Exchanges :
       \/ CommandForm(sent[i].cmd.fmt) = ":<LEAF>"
       \/ /\ CommandForm(sent[i].cmd.fmt) = ":CHAN<n><LEAF>"
          /\ sent[i].cmd.args[1] = lastOp.axis
       \/ /\ CommandForm(sent[i].cmd.fmt) = ":<LEAF><n>"
          /\ sent[i].cmd.fmt \in ChannelLast
          /\ sent[i].cmd.args[1] = lastOp.axis

\* what holds in its place: the same of every operation but setClosedLoop,
\* whose command names the channel of its axis and has no leading colon
C27_AllButTheAmplifier ==
  lastOp.op \notin {"none", "clearErrors"} =>
    \A i \in Exchanges :
       \/ CommandForm(sent[i].cmd.fmt) = ":<LEAF>"
       \/ /\ CommandForm(sent[i].cmd.fmt) = ":CHAN<n><LEAF>"
          /\ sent[i].cmd.args[1] = lastOp.axis
       \/ /\ CommandForm(sent[i].cmd.fmt) = ":<LEAF><n>"
          /\ sent[i].cmd.args[1] = lastOp.axis
       \/ /\ CommandForm(sent[i].cmd.fmt) = "CHAN<n><LEAF>"
          /\ lastOp.op = "setClosedLoop"
          /\ sent[i].cmd.args[1] = lastOp.axis

\* the last move took the legacy open-loop path
LegacyPathTaken ==
  /\ ~ClosedLoopRouted(lastOp.before.sensorPresent_, lastOp.before.openLoop_)
  /\ ~(lastOp.before.stepsizef_ # 0 /\ lastOp.before.stepsizer_ # 0)

\* C28 as it is stated, for the older revision, whose open-loop path is that
\* of the axes without sensor: the step target of every axis is the sum of
\* the step counts of its open-loop moves, the value given for a relative
\* move and the value less the step target for an absolute one.
C28_AsClaimed ==
  lastOp.op = "moveOlder" => stepTargetSteps_[lastOp.axis] = sumSteps[lastOp.axis]

\* C28, for the newer revision: stepTargetSteps_ of every axis is the sum of
\* the step counts of its moves that took the legacy open-loop path, and the
\* count such a move computes is the value given when it is relative and the
\* value less the previous stepTargetSteps_ when it is absolute.
C28_TargetIsTheSumOfCounts ==
  /\ \A a \in Axes : stepTargetSteps_[a] = sumSteps[a]
  /\ lastOp.op = "move" /\ LegacyPathTaken =>
        lastOp.steps = StepCount(lastOp.before.stepTargetSteps_, lastOp.position, lastOp.relative)

\* a relative move of 1 on the legacy path from the step target 1, reached
\* by an absolute move: the target is 2
C28_Witness ==
  /\ lastOp.op = "move"
  /\ LegacyPathTaken
  /\ lastOp.relative = 1
  /\ lastOp.position = 1
  /\ lastOp.before.stepTargetSteps_ = 1
  /\ stepTargetSteps_[lastOp.axis] = 2
  /\ sumSteps[lastOp.axis] = 2

\* C29: the constructor runs to its end whatever the connect and its
\* exchanges return: it attempts the drain, the identity query and the
\* drain again, creates an axis for exactly the indices below numAxes whose
\* bit of the unused mask is clear, each with initialPollDone_ 0, and starts
\* the poller.
C29_ConstructionCompletes ==
  lastOp.op = "construct" =>
    /\ lastOp.axes = (0 .. (lastOp.numAxes - 1)) \ lastOp.unused
    /\ \A axis \in lastOp.axes : lastOp.initialPollDone_[axis] = 0
    /\ lastOp.pollerStarted
    /\ lastOp.oldStatus_ = asynError
    /\ \E i \in Exchanges : sent[i].cmd = Cmd(":DEV:SNUM?", <<>>)
    /\ sent[1].cmd = Cmd(":SYST:ERR:COUN?", <<>>)
    /\ Cardinality({i \in Exchanges : sent[i].cmd = Cmd(":SYST:ERR:COUN?", <<>>)}) = 2

\* the connect and every exchange failed, the mask has bits 1 and 3 set:
\* of three axes the axes 0 and 2 are created
C29_Witness ==
  /\ lastOp.op = "construct"
  /\ lastOp.connect = asynError
  /\ \A i \in Exchanges : Failed(i)
  /\ lastOp.numAxes = 3
  /\ lastOp.unused = {1, 3}
  /\ lastOp.axes = {0, 2}
  /\ lastOp.pollerStarted

BothOps == {"pollBoth", "moveBoth", "homeBoth", "stopBoth", "setPositionBoth"}

\* the flags and the positions both revisions publish
SharedFields ==
  {"pstatrb_", "motorStatusDone_", "motorClosedLoop_", "motorStatusHasEncoder_",
   "motorStatusHomed_", "motorStatusHighLimit_", "motorStatusLowLimit_",
   "motorStatusFollowingError_", "motorStatusAtHome_", "motorEncoderPosition_",
   "motorPosition_", "ptyprb_", "cal_", "ref_", "mclf_"}

SameOn(fields) == \A f \in fields : lastOp.newer.params[f] = lastOp.older.params[f]

\* the commands of the older revision without its amplifier query
OlderButAmpl == SelectSeq(lastOp.older.cmds, LAMBDA c : c.fmt # ":CHAN%d:AMPL?")

C30_WitnessPoll ==
  /\ lastOp.op = "pollBoth"
  /\ lastOp.newer.allOk /\ lastOp.older.allOk
  /\ Bit(lastOp.stat, CH_STATE_SENSOR_PRESENT) = 1
  /\ Len(lastOp.older.cmds) = Len(lastOp.newer.cmds) + 1

(***************************************************************************)
(* C31: what a poll that aborts leaves published.                          *)
(***************************************************************************)
\* the reads of a poll in the order of the source
ReadOrder ==
  <<":CHAN%d:STAT?", ":CHAN%d:POS?", ":CHAN%d:POS:TARG?", ":CHAN%d:PTYP?", ":CHAN%d:MCLF?">>
\* the parameters published right after each read
ReadFields ==
  <<{"pstatrb_", "motorStatusDone_", "motorClosedLoop_", "motorStatusHasEncoder_",
     "motorStatusHomed_", "motorStatusHighLimit_", "motorStatusLowLimit_",
     "motorStatusFollowingError_", "motorStatusAtHome_", "motorStatusPowerOn_"},
    {"freadback_", "motorEncoderPosition_"}, {"motorPosition_"}, {"ptyprb_"}, {"mclf_"}>>
\* a poll of an observed cycle returned the error status
CycleAborted == lastOp.op = "poll" /\ lastOp.cycle # {} /\ lastOp.ret # asynSuccess
CycleWas == (CHOOSE c \in lastOp.cycle : TRUE).was
CycleAnswers == (CHOOSE c \in lastOp.cycle : TRUE).answers
\* the setup or the read the poll stopped at: the first of them that failed
FailurePoint ==
  CHOOSE i \in Exchanges :
    /\ sent[i].status # asynSuccess
    /\ sent[i].cmd.fmt \in PollReadFormats \cup {HoldFormat}
    /\ \A j \in 1 .. (i - 1) :
         sent[j].status = asynSuccess \/ sent[j].cmd.fmt \notin PollReadFormats \cup {HoldFormat}
\* its place in the order of the reads; 0 for the setup
FailedRead ==
  IF sent[FailurePoint].cmd.fmt = HoldFormat THEN 0
  ELSE CHOOSE k \in DOMAIN ReadOrder : ReadOrder[k] = sent[FailurePoint].cmd.fmt
\* what the cycle publishes of the answers when every read succeeds
FreshValues ==
  [StatusParams(CycleWas, CycleAnswers.stat) EXCEPT
     !.freadback_ = CycleAnswers.pos,
     !.motorEncoderPosition_ = Ratio(CycleAnswers.pos, PULSES_PER_STEP),
     !.motorPosition_ = Ratio(CycleAnswers.targ, PULSES_PER_STEP),
     !.ptyprb_ = CycleAnswers.ptyp,
     !.cal_ = Bit(CycleAnswers.stat, CH_STATE_IS_CALIBRATED),
     !.ref_ = Bit(CycleAnswers.stat, CH_STATE_IS_REFERENCED),
     !.mclf_ = CycleAnswers.mclf]
FieldsAre(fields, values) == \A f \in fields : params[lastOp.axis][f] = values[f]

\* C31: when a poll aborts at a failed read (or at its setup), the values
\* of the reads that succeeded before the failure are those of this cycle's
\* answers, and the values of the failed read and of every read after it
\* are those of the previous cycle; calibration and reference, published
\* after the positioner type was read of an idle axis, go with that read.
C31_AbortedPollKeepsTheRest ==
  CycleAborted =>
    /\ \A k \in DOMAIN ReadOrder :
         FieldsAre(ReadFields[k],
                   IF k < FailedRead /\ ReadOk(sent, ReadOrder[k]) THEN FreshValues
                   ELSE CycleWas)
    /\ FieldsAre({"cal_", "ref_"},
                 IF 4 < FailedRead /\ Bit(CycleAnswers.stat, CH_STATE_ACTIVELY_MOVING) = 0
                 THEN FreshValues ELSE CycleWas)

\* a second cycle fails at the positioner type: status word and position
\* are those of this cycle, positioner type and MCLF those of the cycle before
C31_Witness ==
  /\ CycleAborted
  /\ FailedRead = 4
  /\ CycleWas.ptyprb_ = 300 /\ CycleWas.mclf_ = 5000 /\ CycleWas.freadback_ = 1500
  /\ CycleAnswers.ptyp = 301 /\ CycleAnswers.pos = 1501
  /\ params[lastOp.axis].freadback_ = 1501
  /\ params[lastOp.axis].pstatrb_ = 224
  /\ params[lastOp.axis].ptyprb_ = 300
  /\ params[lastOp.axis].mclf_ = 5000

(***************************************************************************)
(* C32: the channel a command addresses.                                   *)
(***************************************************************************)
\* the operations of one axis
AxisOps ==
  {"poll", "move", "home", "stop", "setPosition", "setClosedLoop", "setIntegerParam"}
\* the command carries a channel index: it is the first argument of its format
CarriesChannel(cmd) == CommandForm(cmd.fmt) \in {":CHAN<n><LEAF>", ":<LEAF><n>", "CHAN<n><LEAF>"}

\* C32: every command an operation of axis n puts on the stream either
\* carries no channel index (the reads of the error queue) or carries n.
C32_CommandsAddressTheirAxis ==
  lastOp.op \in AxisOps =>
    \A i \in Exchanges :
      /\ CommandForm(sent[i].cmd.fmt) # "other"
      /\ CarriesChannel(sent[i].cmd) => sent[i].cmd.args[1] = lastOp.axis

\* the first poll of the second axis: setup, drain and reads, each
\* per-axis command with the index 1
C32_Witness ==
  /\ lastOp.op = "poll" /\ lastOp.axis = 1
  /\ Len(sent) >= 4
  /\ sent[1].cmd = Cmd(":CHAN%d:HOLD %d", <<1, HOLD_FOREVER>>)
  /\ \E i \in Exchanges : sent[i].cmd = Cmd(":CHAN%d:STAT?", <<1>>)
  /\ \E i \in Exchanges : ~CarriesChannel(sent[i].cmd)

\* a stop of the second axis
C32_WitnessStop ==
  lastOp.op = "stop" /\ lastOp.axis = 1 /\ sent[1].cmd = Cmd(":STOP%d", <<1>>)

(***************************************************************************)
(* C33: a move before the first successful status read.                    *)
(***************************************************************************)
\* C33 as it is stated: an axis that has not been polled yet has
\* sensorPresent_ clear, so a move of it is encoded as an open-loop step
\* move.
C33_AsClaimed ==
  lastOp.op = "move" /\ lastPollRet[lastOp.axis] = "none" =>
    /\ lastOp.before.sensorPresent_ = 0
    /\ ~ClosedLoopFormat(sent)

\* what holds instead: the move of an axis not polled yet is routed by the
\* value the constructor left in sensorPresent_, whatever it is
C33_RoutedByTheValueLeft ==
  lastOp.op = "move" /\ lastPollRet[lastOp.axis] = "none" /\ lastOp.before.openLoop_ = 0
    /\ Len(sent) > 0 =>
    (ClosedLoopFormat(sent) <=> lastOp.before.sensorPresent_ # 0)

(***************************************************************************)
(* C34: the calls that leave the targets of move alone.                    *)
(***************************************************************************)
\* the calls that send commands of an axis and are neither move nor poll
NoMoveOps == {"setPosition", "stop", "home", "setClosedLoop"}

\* C34: setPosition, stop, home and setClosedLoop leave stepTargetPos_nm_
\* and stepTargetSteps_ as they were, whatever the link does; and an
\* absolute open-loop move to q sends q less the stepTargetSteps_ it finds,
\* which is the sum of the step counts of the moves before it, whatever
\* position a setPosition in between was given.
C34_TargetsKept ==
  [][/\ lastOp'.op \in NoMoveOps =>
          /\ stepTargetPos_nm_' = stepTargetPos_nm_
          /\ stepTargetSteps_' = stepTargetSteps_
     /\ lastOp'.op = "move" /\ lastOp'.relative = 0
          /\ ~ClosedLoopRouted(sensorPresent_[lastOp'.axis], openLoop_[lastOp'.axis]) =>
          /\ stepTargetSteps_[lastOp'.axis] = sumSteps[lastOp'.axis]
          /\ lastOp'.steps = lastOp'.position - sumSteps[lastOp'.axis]
          /\ lastOp'.steps # 0 =>
               /\ Len(sent') = 3
               /\ sent'[3].cmd = Cmd(":MOVE%d %lld", <<lastOp'.axis, lastOp'.steps>>)]_vars

\* setPosition(1) has been sent with success on an axis whose moves left
\* the targets at -1: the targets are still -1
C34_Witness ==
  /\ lastOp.op = "setPosition"
  /\ lastOp.position = 1
  /\ lastOp.ret = asynSuccess
  /\ stepTargetSteps_[lastOp.axis] = -1
  /\ stepTargetPos_nm_[lastOp.axis] = -1
  /\ sumSteps[lastOp.axis] = -1

\* an absolute open-loop move to 1 from the step target -1 sends 2 steps
C34_WitnessMove ==
  /\ lastOp.op = "move" /\ lastOp.relative = 0 /\ lastOp.position = 1
  /\ lastOp.before.stepTargetSteps_ = -1
  /\ lastOp.steps = 2
  /\ Len(sent) = 3
  /\ sent[3].cmd = Cmd(":MOVE%d %lld", <<lastOp.axis, 2>>)

(***************************************************************************)
(* C35: the target of a move that sends nothing, or fails.                 *)
(***************************************************************************)
\* the commands of the last operation that failed at the transport
FailedExchanges == {i \in Exchanges : sent[i].status # asynSuccess}

\* C35: after every move, in closed loop, in open loop with the step sizes
\* set and in open loop without, stepTargetPos_nm_ is the position given
\* (absolute) or the target before plus the position given (relative),
\* whether the move sent its commands or none, and whether none, some or
\* all of them failed at the transport.
C35_TargetMovesRegardless ==
  lastOp.op = "move" =>
    stepTargetPos_nm_[lastOp.axis] =
      IF lastOp.relative # 0 THEN lastOp.before.stepTargetPos_nm_ + lastOp.position
      ELSE lastOp.position

\* an absolute open-loop move that computes zero steps and sends nothing:
\* the target goes from 1 to 0
C35_Witness ==
  /\ lastOp.op = "move" /\ MoveOpenLoop
  /\ lastOp.relative = 0 /\ lastOp.position = 0
  /\ lastOp.steps = 0 /\ sent = <<>>
  /\ lastOp.before.stepTargetPos_nm_ = 1
  /\ stepTargetPos_nm_[lastOp.axis] = 0

\* a relative closed-loop move all of whose four commands failed
C35_WitnessAllFailed ==
  /\ MoveClosedLoop
  /\ lastOp.relative = 1 /\ lastOp.position = 1
  /\ Len(sent) = 4 /\ FailedExchanges = Exchanges
  /\ lastOp.ret # asynSuccess
  /\ stepTargetPos_nm_[lastOp.axis] = lastOp.before.stepTargetPos_nm_ + 1

\* a move with the step sizes set, some of whose commands failed
C35_WitnessSomeFailed ==
  /\ lastOp.op = "move" /\ MoveOpenLoop /\ MoveCalibrated
  /\ FailedExchanges # {} /\ FailedExchanges # Exchanges
  /\ lastOp.relative = 0 /\ lastOp.position = -1
  /\ lastOp.before.stepTargetPos_nm_ = 1
  /\ stepTargetPos_nm_[lastOp.axis] = -1

(***************************************************************************)
(* C36: what a poll puts on the stream.                                    *)
(***************************************************************************)
\* the queries of the driver: the reads of an axis and of the error queue
QueryFormats == PollReadFormats \cup {":SYST:ERR:COUN?", ":SYST:ERR?"}

\* C36: every command of a poll is a query, sent by a primitive that reads
\* the answer, but for the :CHAN<n>:HOLD of the setup, which is the first
\* command of a poll that finds initialPollDone_ clear; in particular a
\* poll that publishes cal_, ref_ and mclf_ sends no :CAL<n>,
\* :CHAN<n>:MCLF:CURR, :CHAN<n>:PTYP <value> or :MOVE<n>.
C36_PollOnlyQueries ==
  lastOp.op = "poll" =>
    \A i \in Exchanges :
      \/ sent[i].cmd.fmt \in QueryFormats /\ sent[i].via # "writeController"
      \/ /\ i = 1
         /\ lastOp.before.initialPollDone_ = 0
         /\ sent[i].cmd.fmt = HoldFormat

\* a first poll of an idle axis that ran to its end: calibration, reference
\* and MCLF are published, and all it sent after the setup are queries
C36_Witness ==
  /\ lastOp.op = "poll" /\ lastOp.ret = asynSuccess
  /\ lastOp.before.initialPollDone_ = 0
  /\ lastOp.stat = 224
  /\ sent[1].cmd.fmt = HoldFormat
  /\ params[lastOp.axis].cal_ = 1 /\ params[lastOp.axis].ref_ = 1
  /\ params[lastOp.axis].mclf_ = 5000
  /\ \A i \in Exchanges : i > 1 => sent[i].cmd.fmt \in QueryFormats
  /\ sent[Len(sent)].cmd.fmt = ":CHAN%d:MCLF?"

(***************************************************************************)
(* C37: what clears initialPollDone_.                                      *)
(***************************************************************************)
\* the step is a poll of axis a that returns the error status
FailedPollOf(a) == lastOp'.op = "poll" /\ lastOp'.axis = a /\ lastOp'.ret # asynSuccess

\* C37: initialPollDone_ of an axis goes from set to clear exactly in a
\* poll of that axis that returns the error status: no move, home, stop,
\* setPosition, setClosedLoop or parameter write clears it, whatever the
\* transport returns to them, and no poll of another axis does; and a
\* poll sends the :CHAN<n>:HOLD of the setup exactly when it finds the flag
\* clear.
C37_ClearedByFailedPollOnly ==
  [][\A a \in Axes :
       /\ (initialPollDone_[a] = 1 /\ initialPollDone_'[a] = 0)
            <=> (initialPollDone_[a] = 1 /\ FailedPollOf(a))
       /\ lastOp'.op = "poll" /\ lastOp'.axis = a =>
            ((sent'[1].cmd.fmt = HoldFormat) <=> initialPollDone_[a] = 0)]_vars

\* a closed-loop move all of whose commands failed, on an axis whose setup
\* is done: the flag is still set
C37_Witness ==
  /\ lastOp.op = "move"
  /\ Len(sent) = 4
  /\ \A i \in Exchanges : sent[i].status # asynSuccess
  /\ lastOp.ret # asynSuccess
  /\ lastOp.before.initialPollDone_ = 1
  /\ initialPollDone_[lastOp.axis] = 1

\* a parameter write that failed, on an axis whose setup is done
C37_WitnessWrite ==
  /\ lastOp.op = "setIntegerParam"
  /\ Len(sent) = 1 /\ sent[1].status # asynSuccess
  /\ initialPollDone_[lastOp.axis] = 1

C38_WitnessMoving ==
  /\ lastOp.op = "poll" /\ ReadOk(sent, ":CHAN%d:STAT?")
  /\ Bit(lastOp.stat, CH_STATE_AMPLIFIER_ENABLED) = 0
  /\ Bit(lastOp.stat, CH_STATE_ACTIVELY_MOVING) = 1
  /\ params[lastOp.axis].motorStatusPowerOn_ = 1

(***************************************************************************)
(* C39: what poll returns, and the comms-error flag when it returns.       *)
(***************************************************************************)
\* the setup or a read of the last poll failed at the transport
SetupOrReadFailed ==
  \E i \in Exchanges :
    sent[i].status # asynSuccess /\ sent[i].cmd.fmt \in PollReadFormats \cup {HoldFormat}

\* C39: poll returns asynSuccess or asynError, asynError exactly when its
\* setup or one of its reads failed at the transport with whatever status;
\* and when it returns, the comms-error flag of the polled axis is 1 if it
\* returns asynError and 0 if it returns asynSuccess.
C39_PollReturnAndFlag ==
  lastOp.op = "poll" =>
    /\ lastOp.ret \in {asynSuccess, asynError}
    /\ lastOp.ret = asynError <=> SetupOrReadFailed
    /\ motorStatusCommsError_[lastOp.axis] = IF lastOp.ret = asynError THEN 1 ELSE 0

\* the setup of a poll timed out: poll returns asynError, the flag is 1
C39_Witness ==
  /\ lastOp.op = "poll"
  /\ sent[1].cmd.fmt = HoldFormat /\ sent[1].status = asynTimeout
  /\ lastOp.ret = asynError
  /\ motorStatusCommsError_[lastOp.axis] = 1

\* a read failed because the port is disconnected
C39_WitnessDisconnected ==
  /\ lastOp.op = "poll"
  /\ \E i \in Exchanges : sent[i].status = asynDisconnected /\ sent[i].cmd.fmt = ":CHAN%d:PTYP?"
  /\ lastOp.ret = asynError
  /\ motorStatusCommsError_[lastOp.axis] = 1

\* a first poll that succeeded: its drain flagged every axis, and the flag
\* of the polled axis is 0 again when it returns
C39_WitnessSuccess ==
  /\ lastOp.op = "poll" /\ lastOp.ret = asynSuccess
  /\ lastOp.before.initialPollDone_ = 0
  /\ motorStatusCommsError_[lastOp.axis] = 0
  /\ \E a \in Axes : motorStatusCommsError_[a] = 1

(***************************************************************************)
(* C40: the drain of the setup.                                            *)
(***************************************************************************)
\* the last operation is a poll that found initialPollDone_ clear
SetupPoll == lastOp.op = "poll" /\ lastOp.before.initialPollDone_ = 0
\* the reads of the error queue of the last operation
DrainExchanges == {i \in Exchanges : sent[i].cmd.fmt \in {":SYST:ERR:COUN?", ":SYST:ERR?"}}
DrainFailed == \E i \in DrainExchanges : sent[i].status # asynSuccess
ReadFailed ==
  \E i \in Exchanges : sent[i].status # asynSuccess /\ sent[i].cmd.fmt \in PollReadFormats

\* C40: a poll that finds initialPollDone_ clear sends :CHAN<n>:HOLD and
\* then the count query of clearErrors, whether the :CHAN<n>:HOLD succeeded
\* or failed; it goes on to the status read exactly when the :CHAN<n>:HOLD
\* succeeded, whatever the drain returned; and initialPollDone_ is set when
\* it returns exactly when the :CHAN<n>:HOLD and every read it sent
\* succeeded.
C40_DrainAlwaysRunsAndIsIgnored ==
  SetupPoll =>
    /\ Len(sent) >= 2
    /\ sent[1].cmd.fmt = HoldFormat /\ sent[1].via = "writeController"
    /\ sent[2].cmd.fmt = ":SYST:ERR:COUN?"
    /\ (\E i \in Exchanges : sent[i].cmd.fmt = ":CHAN%d:STAT?") <=> sent[1].status = asynSuccess
    /\ initialPollDone_[lastOp.axis] = 1 <=> (sent[1].status = asynSuccess /\ ~ReadFailed)

\* the :CHAN<n>:HOLD failed and the drain ran to its end after it
C40_Witness ==
  /\ SetupPoll
  /\ sent[1].status # asynSuccess
  /\ Len(sent) = 3
  /\ sent[2].cmd.fmt = ":SYST:ERR:COUN?" /\ sent[2].status = asynSuccess
  /\ sent[3].cmd.fmt = ":SYST:ERR?" /\ sent[3].status = asynSuccess
  /\ initialPollDone_[lastOp.axis] = 0

\* the drain failed after a :CHAN<n>:HOLD that succeeded: the poll reads
\* on, returns asynSuccess and initialPollDone_ is set
C40_WitnessDrainFailed ==
  /\ SetupPoll
  /\ sent[1].status = asynSuccess
  /\ DrainFailed
  /\ lastOp.ret = asynSuccess
  /\ initialPollDone_[lastOp.axis] = 1

====
